---------------------------- MODULE Spec2Model ----------------------------
(***************************************************************************)
(* A model of the row-by-row PNG decoder of package png (reader.go).       *)
(*                                                                         *)
(* The input is a byte stream.  A session is NewDecoder followed by any    *)
(* sequence of DecodeRow and Close calls.  Bytes are numbers 0..255, a     *)
(* 32-bit word is the sequence of its four bytes in big-endian order (the  *)
(* order of the file), and the decoder reads the stream at offset pos.     *)
(*                                                                         *)
(* The decompressor (compress/zlib over compress/flate over bufio) is the  *)
(* library's, not this package's: it is modelled byte for byte and bit for *)
(* bit, stored and Huffman-coded blocks, with the library's buffering, its *)
(* window and its sticky errors.                                           *)
(***************************************************************************)
EXTENDS Integers, Sequences, FiniteSets, TLC

(***************************************************************************)
(* Bytes and 32-bit words.                                                 *)
(***************************************************************************)
Byte == 0..255

RECURSIVE XorBits(_, _, _)
XorBits(a, b, n) ==
    IF n = 0 THEN 0
    ELSE ((a + b) % 2) + 2 * XorBits(a \div 2, b \div 2, n - 1)

NibXor == [a \in 0..15 |-> [b \in 0..15 |-> XorBits(a, b, 4)]]

Xor8(a, b) == 16 * NibXor[a \div 16][b \div 16] + NibXor[a % 16][b % 16]

Xor32(x, y) == <<Xor8(x[1], y[1]), Xor8(x[2], y[2]), Xor8(x[3], y[3]), Xor8(x[4], y[4])>>

Not32(x) == <<255 - x[1], 255 - x[2], 255 - x[3], 255 - x[4]>>

\* x >> 1 on a big-endian word
Shr1(x) ==
    << x[1] \div 2,
       (x[1] % 2) * 128 + x[2] \div 2,
       (x[2] % 2) * 128 + x[3] \div 2,
       (x[3] % 2) * 128 + x[4] \div 2 >>

\* x >> 8 on a big-endian word
Shr8(x) == <<0, x[1], x[2], x[3]>>

\* binary.BigEndian.Uint32 kept as its 32-bit two's-complement pattern: a word
\* of 2^31 or more is the negative number word - 2^32 (int32(word) in Go).
BigEndianUint32(b) ==
    (IF b[1] >= 128 THEN b[1] - 256 ELSE b[1]) * 16777216
        + b[2] * 65536 + b[3] * 256 + b[4]

\* binary.BigEndian.PutUint32 of the 32-bit pattern n
PutUint32(n) ==
    << (n \div 16777216) % 256, (n \div 65536) % 256, (n \div 256) % 256, n % 256 >>

(***************************************************************************)
(* hash/crc32, IEEE polynomial, as crc32.NewIEEE() computes it: the table  *)
(* of the reflected polynomial 0xedb88320 and the byte-wise update.        *)
(***************************************************************************)
IEEE == <<237, 184, 131, 32>>

RECURSIVE CrcTableEntry(_, _)
CrcTableEntry(c, k) ==
    IF k = 0 THEN c
    ELSE CrcTableEntry(IF c[4] % 2 = 1 THEN Xor32(Shr1(c), IEEE) ELSE Shr1(c), k - 1)

IEEETable == [i \in Byte |-> CrcTableEntry(<<0, 0, 0, i>>, 8)]

\* the loop of the table-driven update over the bytes p[lo..hi], in order:
\* the first half of the range, then the second, so that the evaluation of a
\* long range does not nest once per byte.  (Len(c) # 4 never holds: the test
\* makes TLC evaluate c at every step instead of nesting the pending updates.)
RECURSIVE CrcUpdateRaw(_, _, _, _)
CrcUpdateRaw(c, p, lo, hi) ==
    IF lo > hi \/ Len(c) # 4 THEN c
    ELSE IF lo = hi THEN Xor32(IEEETable[Xor8(c[4], p[lo])], Shr8(c))
    ELSE CrcUpdateRaw(CrcUpdateRaw(c, p, lo, (lo + hi) \div 2), p, (lo + hi) \div 2 + 1, hi)

\* d.crc.Reset(): the checksum of no bytes
CrcReset == <<0, 0, 0, 0>>

\* d.crc.Write(p) on a digest whose Sum32 is crc: the new Sum32
CrcWrite(crc, p) == Not32(CrcUpdateRaw(Not32(crc), p, 1, Len(p)))

(***************************************************************************)
(* hash/adler32, as the zlib reader's digest computes it.                  *)
(***************************************************************************)
AdlerMod == 65521

\* the digest s after the bytes p[lo..hi]; the range is split in halves
RECURSIVE AdlerUpdate(_, _, _, _)
AdlerUpdate(s, p, lo, hi) ==
    IF lo > hi \/ s.a >= AdlerMod THEN s
    ELSE IF lo = hi
    THEN [a |-> (s.a + p[lo]) % AdlerMod, b |-> (s.b + ((s.a + p[lo]) % AdlerMod)) % AdlerMod]
    ELSE AdlerUpdate(AdlerUpdate(s, p, lo, (lo + hi) \div 2), p, ((lo + hi) \div 2) + 1, hi)

AdlerInit == [a |-> 1, b |-> 0]

AdlerWrite(s, p) == AdlerUpdate(s, p, 1, Len(p))

\* Sum32 as four big-endian bytes: b<<16 | a
AdlerSum(s) == << s.b \div 256, s.b % 256, s.a \div 256, s.a % 256 >>


(***************************************************************************)
(* Errors.  A Go error value is a record; Nil is the nil error.            *)
(***************************************************************************)
Nil == [kind |-> "nil", msg |-> "", arg |-> <<>>]

EOF == [kind |-> "io", msg |-> "EOF", arg |-> <<>>]

ErrUnexpectedEOF == [kind |-> "io", msg |-> "unexpected EOF", arg |-> <<>>]

FormatError(m) == [kind |-> "FormatError", msg |-> m, arg |-> <<>>]

FormatErrorf(m, a) == [kind |-> "FormatError", msg |-> m, arg |-> a]

UnsupportedError(m) == [kind |-> "UnsupportedError", msg |-> m, arg |-> <<>>]

UnsupportedErrorf(m, a) == [kind |-> "UnsupportedError", msg |-> m, arg |-> a]

chunkOrderError == FormatError("chunk out of order")

\* the errors of compress/zlib and compress/flate
ZlibErrHeader == [kind |-> "zlib", msg |-> "invalid header", arg |-> <<>>]

ZlibErrChecksum == [kind |-> "zlib", msg |-> "invalid checksum", arg |-> <<>>]

ZlibErrDictionary == [kind |-> "zlib", msg |-> "invalid dictionary", arg |-> <<>>]

FlateCorruptInput == [kind |-> "flate", msg |-> "corrupt input", arg |-> <<>>]

(***************************************************************************)
(* Program constants.                                                      *)
(***************************************************************************)
ctTrueColorAlpha == 6

cbInvalid == 0
cbTCA8 == 1

ftNone == 0
ftSub == 1
ftUp == 2
ftAverage == 3
ftPaeth == 4
nFilter == 5

dsStart == 0
dsSeenIHDR == 1
dsSeenIDAT == 2
dsSeenIEND == 3

pngHeader == <<137, 80, 78, 71, 13, 10, 26, 10>>

TagIHDR == <<73, 72, 68, 82>>
TagIDAT == <<73, 68, 65, 84>>
TagIEND == <<73, 69, 78, 68>>

\* the width of Go's int on the platform of the build (amd64)
IntBits == 64

\* len(ignored), the scratch array of NewDecoder's skip loop
IgnoredLen == 4096

min(a, b) == IF a < b THEN a ELSE b

(***************************************************************************)
(* Locals.  The(S) is the element of a one-element set.  In                *)
(*     The({ e : x \in {v} })                                              *)
(* x is a local of the code holding the value v, and e is what the code    *)
(* computes from it.                                                       *)
(***************************************************************************)
The(S) == CHOOSE x \in S : TRUE

(***************************************************************************)
(* The input stream d.r.  A decoder record d holds the fields of struct    *)
(* decoder that the code reads or writes, and r, the offset of d.r in the  *)
(* stream.  The reader is one that returns what it has (bytes.Reader,      *)
(* os.File): Read gives up to len(p) bytes, or (0, io.EOF) at the end.     *)
(***************************************************************************)
VARIABLE stream

Avail(d) == Len(stream) - d.r

\* d.r.Read(p) with len(p) = n > 0
ReaderRead(d, n) ==
    IF Avail(d) = 0
    THEN [d |-> d, bytes |-> <<>>, err |-> EOF]
    ELSE [d |-> [d EXCEPT !.r = d.r + min(n, Avail(d))],
          bytes |-> SubSeq(stream, d.r + 1, d.r + min(n, Avail(d))),
          err |-> Nil]

\* io.ReadFull(d.r, buf) with len(buf) = n
ReadFull(d, n) ==
    IF n = 0 THEN [d |-> d, bytes |-> <<>>, err |-> Nil]
    ELSE IF Avail(d) >= n
    THEN [d |-> [d EXCEPT !.r = d.r + n],
          bytes |-> SubSeq(stream, d.r + 1, d.r + n),
          err |-> Nil]
    ELSE [d |-> [d EXCEPT !.r = Len(stream)],
          bytes |-> SubSeq(stream, d.r + 1, Len(stream)),
          err |-> IF Avail(d) = 0 THEN EOF ELSE ErrUnexpectedEOF]

\* &decoder{r: r, crc: crc32.NewIEEE()}
NewDecoderStruct ==
    [r |-> 0, crc |-> CrcReset, width |-> 0, height |-> 0, depth |-> 0,
     cb |-> cbInvalid, stage |-> dsStart, idatLength |-> 0, interlace |-> 0]

\* (d *decoder) verifyChecksum
verifyChecksum(d) ==
    The({ IF rd.err # Nil THEN [d |-> rd.d, err |-> rd.err]
          ELSE IF rd.bytes # d.crc
          THEN [d |-> rd.d, err |-> FormatError("invalid checksum")]
          ELSE [d |-> rd.d, err |-> Nil]
        : rd \in {ReadFull(d, 4)} })

\* (d *decoder) checkHeader
checkHeader(d) ==
    The({ IF rd.err # Nil THEN [d |-> rd.d, err |-> rd.err]
          ELSE IF rd.bytes # pngHeader
          THEN [d |-> rd.d, err |-> FormatError("not a PNG file")]
          ELSE [d |-> rd.d, err |-> Nil]
        : rd \in {ReadFull(d, Len(pngHeader))} })

(***************************************************************************)
(* 64-bit arithmetic of parseIHDR's overflow check.  A 64-bit pattern is   *)
(* five limbs of 15 bits, least significant first (the last limb holds     *)
(* bits 60..63).                                                           *)
(***************************************************************************)
Limb == 32768

\* int64(w) * int64(h) for 0 < w, h < 2^31: it cannot overflow 64 bits
Mul64(w, h) ==
    LET w0 == w % Limb  w1 == (w \div Limb) % Limb  w2 == w \div (Limb * Limb)
        h0 == h % Limb  h1 == (h \div Limb) % Limb  h2 == h \div (Limb * Limb)
        c0 == w0 * h0
        c1 == w0 * h1 + w1 * h0 + c0 \div Limb
        c2 == w0 * h2 + w1 * h1 + w2 * h0 + c1 \div Limb
        c3 == w1 * h2 + w2 * h1 + c2 \div Limb
        c4 == w2 * h2 + c3 \div Limb
    IN  <<c0 % Limb, c1 % Limb, c2 % Limb, c3 % Limb, c4 % 16>>

\* int(x) of an int64 x, sign-extended back to 64 bits: int64(int(x))
TruncInt(x) ==
    IF IntBits = 64 THEN x
    ELSE \* the low 32 bits, sign-extended
         IF x[3] % 4 >= 2
         THEN <<x[1], x[2], (x[3] % 4) + (Limb - 4), Limb - 1, 15>>
         ELSE <<x[1], x[2], x[3] % 4, 0, 0>>

\* (x * 8) / 8 without the wraparound of the product
Times8Div8Exact(x) == x

\* (x * 8) / 8 in the platform's int: the product wraps, the quotient of a
\* multiple of 8 is exact, so the result is the low IntBits-3 bits of x
\* sign-extended.
Times8Div8(x) ==
    IF IntBits = 64
    THEN <<x[1], x[2], x[3], x[4], IF (x[5] % 2) = 1 THEN 15 ELSE 0>>
    ELSE \* bits 15..28 are x[2] % 16384, bit 28 is the sign
         IF x[2] % 16384 >= 8192
         THEN <<x[1], (x[2] % 16384) + 16384, Limb - 1, Limb - 1, 15>>
         ELSE <<x[1], x[2] % 16384, 0, 0, 0>>

\* parseIHDR from its first field test on: tmp is d.tmp[:13], d1 the decoder
\* after the read and d.crc.Write
parseIHDRFields(d1, tmp) ==
    IF tmp[11] # 0 THEN [d |-> d1, err |-> UnsupportedError("compression method")]
    ELSE IF tmp[12] # 0 THEN [d |-> d1, err |-> UnsupportedError("filter method")]
    ELSE
    The({ IF w <= 0 \/ h <= 0
          THEN [d |-> d1, err |-> FormatError("non-positive dimension")]
          ELSE
          The({ IF nPixels64 # TruncInt(nPixels64)
                THEN [d |-> d1, err |-> UnsupportedError("dimension overflow")]
                ELSE IF TruncInt(nPixels64) # Times8Div8(TruncInt(nPixels64))
                THEN [d |-> d1, err |-> UnsupportedError("dimension overflow")]
                ELSE
                The({ IF cb = cbInvalid
                      THEN [d |-> [d1 EXCEPT !.cb = cb, !.depth = tmp[9]],
                            err |-> UnsupportedErrorf("bit depth %d, color type %d",
                                                      <<tmp[9], tmp[10]>>)]
                      ELSE verifyChecksum([d1 EXCEPT !.cb = cb, !.depth = tmp[9],
                                                     !.width = w, !.height = h])
                    : cb \in {IF tmp[9] = 8 /\ tmp[10] = ctTrueColorAlpha
                              THEN cbTCA8 ELSE cbInvalid} })
              : nPixels64 \in {Mul64(w, h)} })
        : w \in {BigEndianUint32(SubSeq(tmp, 1, 4))},
          h \in {BigEndianUint32(SubSeq(tmp, 5, 8))} })

\* a parseIHDR that tests the length last, after the fields and the CRC
parseIHDRLengthLast(d, length) ==
    The({ IF rd.err # Nil THEN [d |-> rd.d, err |-> rd.err]
          ELSE The({ IF pf.err = Nil /\ length # 13
                     THEN [d |-> pf.d, err |-> FormatError("bad IHDR length")]
                     ELSE pf
                   : pf \in {parseIHDRFields([rd.d EXCEPT !.crc = CrcWrite(d.crc, rd.bytes)],
                                             rd.bytes)} })
        : rd \in {ReadFull(d, 13)} })

\* (d *decoder) parseIHDR
parseIHDR(d, length) ==
    IF length # 13 THEN [d |-> d, err |-> FormatError("bad IHDR length")]
    ELSE
    The({ IF rd.err # Nil THEN [d |-> rd.d, err |-> rd.err]
          ELSE parseIHDRFields([rd.d EXCEPT !.crc = CrcWrite(d.crc, rd.bytes)], rd.bytes)
        : rd \in {ReadFull(d, 13)} })

\* the for loop of (d *decoder) Read: while the current IDAT segment is
\* exhausted, verify its checksum and open the next chunk, which must be IDAT
\* the loop with the stored CRC of the exhausted chunk read and not compared
RECURSIVE ReadNextIDATUnverified(_)
ReadNextIDATUnverified(d) ==
    IF d.idatLength # 0 THEN [d |-> d, err |-> Nil]
    ELSE
    The({ IF rd.err # Nil THEN [d |-> rd.d, err |-> rd.err]
          ELSE IF SubSeq(rd.bytes, 9, 12) # TagIDAT
          THEN [d |-> [rd.d EXCEPT !.idatLength = BigEndianUint32(SubSeq(rd.bytes, 5, 8))],
                err |-> FormatError("not enough pixel data")]
          ELSE ReadNextIDATUnverified(
                  [rd.d EXCEPT !.idatLength = BigEndianUint32(SubSeq(rd.bytes, 5, 8)),
                               !.crc = CrcWrite(CrcReset, TagIDAT)])
        : rd \in {ReadFull(d, 12)} })

RECURSIVE ReadNextIDAT(_)
ReadNextIDAT(d) ==
    IF d.idatLength # 0 THEN [d |-> d, err |-> Nil]
    ELSE
    The({ IF vc.err # Nil THEN vc
          ELSE
          The({ IF rd.err # Nil THEN [d |-> rd.d, err |-> rd.err]
                ELSE IF SubSeq(rd.bytes, 5, 8) # TagIDAT
                THEN [d |-> [rd.d EXCEPT !.idatLength = BigEndianUint32(SubSeq(rd.bytes, 1, 4))],
                      err |-> FormatError("not enough pixel data")]
                ELSE ReadNextIDAT(
                        [rd.d EXCEPT !.idatLength = BigEndianUint32(SubSeq(rd.bytes, 1, 4)),
                                     !.crc = CrcWrite(CrcReset, TagIDAT)])
              : rd \in {ReadFull(vc.d, 8)} })
        : vc \in {verifyChecksum(d)} })

\* d.idatLength -= uint32(n) on the 32-bit pattern p of a uint32 (a negative
\* number stands for p + 2^32): the difference modulo 2^32, as a pattern
SubUint32(p, n) ==
    IF p >= 0 \/ n <= p + 2147483647 + 1 THEN p - n
    ELSE ((p + 2147483647 + 1) - n) + 2147483647 + 1

\* a Read that fills p from the stream whatever is left of the segment
ReadUnbounded(d, n) ==
    IF n = 0 THEN [d |-> d, bytes |-> <<>>, err |-> Nil]
    ELSE
    The({ IF nx.err # Nil THEN [d |-> nx.d, bytes |-> <<>>, err |-> nx.err]
          ELSE
          The({ [d |-> [rr.d EXCEPT !.crc = CrcWrite(nx.d.crc, rr.bytes),
                                    !.idatLength = SubUint32(nx.d.idatLength, Len(rr.bytes))],
                 bytes |-> rr.bytes,
                 err |-> rr.err]
              : rr \in {ReaderRead(nx.d, n)} })
        : nx \in {ReadNextIDAT(d)} })

\* (d *decoder) Read(p) with len(p) = n.  idatLength is a uint32 kept as its
\* 32-bit pattern: a negative number stands for a length of 2^31 or more.
Read(d, n) ==
    IF n = 0 THEN [d |-> d, bytes |-> <<>>, err |-> Nil]
    ELSE
    The({ IF nx.err # Nil THEN [d |-> nx.d, bytes |-> <<>>, err |-> nx.err]
          ELSE IF IntBits = 32 /\ nx.d.idatLength < 0
          THEN [d |-> nx.d, bytes |-> <<>>,
                err |-> UnsupportedError("IDAT chunk length overflow")]
          ELSE
          The({ [d |-> [rr.d EXCEPT !.crc = CrcWrite(nx.d.crc, rr.bytes),
                                    !.idatLength = SubUint32(nx.d.idatLength, Len(rr.bytes))],
                 bytes |-> rr.bytes,
                 err |-> rr.err]
              : rr \in {ReaderRead(nx.d, IF nx.d.idatLength < 0 THEN n
                                         ELSE min(n, nx.d.idatLength))} })
        : nx \in {ReadNextIDAT(d)} })

\* the checks of readIEND on the chunk header read: d1 is the decoder after
\* the read and the CRC's restart on the tag
IENDChecks(d1, length, header) ==
    IF header # TagIEND
    THEN [d |-> d1, err |-> FormatErrorf("not IEND ", header)]
    ELSE IF length # 0
    THEN [d |-> d1, err |-> FormatError("bad IEND length")]
    ELSE verifyChecksum(d1)

\* a readIEND that records the terminal chunk in the stage
readIENDSeen(d) ==
    The({ IF rd.err # Nil THEN [d |-> rd.d, err |-> rd.err]
          ELSE The({ [d |-> IF ie.err = Nil THEN [ie.d EXCEPT !.stage = dsSeenIEND] ELSE ie.d,
                      err |-> ie.err]
                   : ie \in {IENDChecks([rd.d EXCEPT !.crc =
                                            CrcWrite(CrcReset, SubSeq(rd.bytes, 5, 8))],
                                        BigEndianUint32(SubSeq(rd.bytes, 1, 4)),
                                        SubSeq(rd.bytes, 5, 8))} })
        : rd \in {ReadFull(d, 8)} })

\* (d *decoder) readIEND
readIEND(d) ==
    The({ IF rd.err # Nil THEN [d |-> rd.d, err |-> rd.err]
          ELSE IENDChecks([rd.d EXCEPT !.crc = CrcWrite(CrcReset, SubSeq(rd.bytes, 5, 8))],
                          BigEndianUint32(SubSeq(rd.bytes, 1, 4)),
                          SubSeq(rd.bytes, 5, 8))
        : rd \in {ReadFull(d, 8)} })

(***************************************************************************)
(* The decompressor dec.zlibR = zlib.NewReader(d).  *decoder has no        *)
(* ReadByte, so zlib wraps it in a bufio.Reader of the default size; the   *)
(* bufio.Reader calls d.Read only when its buffer is empty.  A state s is  *)
(* [d |-> the decoder, z |-> the zlib reader]; z holds                     *)
(*   buf, berr     bufio's unread bytes and its pending error,             *)
(*   b, nb         flate's bit buffer, the next bit lowest, and its size,  *)
(*   hist          flate's window: the last WindowSize bytes written,      *)
(*   dict, wr      the bytes of the window not yet flushed, write offset,  *)
(*   toRead        the flushed bytes not yet returned,                     *)
(*   step, stepState   the step that continues the block being read,       *)
(*   final, copyLen, copyDist   the block's final bit, what is left of a   *)
(*                 stored block or of a match, and the match's distance,   *)
(*   hl, hd        the Huffman decoders of the block's literal/length and  *)
(*                 distance codes: a sequence of none (nil) or one,        *)
(*   ferr          flate's sticky error,                                   *)
(*   digest, err   zlib's running Adler-32 and sticky error.               *)
(***************************************************************************)
BufioSize == 4096

WindowSize == 32768

\* compress/flate: the numbers of literal/length and of distance symbols,
\* the end-of-block symbol, and the order of the code length code's lengths
maxNumLit == 286

maxNumDist == 30

endBlockMarker == 256

codeOrder == <<16, 17, 18, 0, 8, 7, 9, 6, 10, 5, 11, 4, 12, 3, 13, 2, 14, 1, 15>>

NewZlibState ==
    [buf |-> <<>>, berr |-> Nil, b |-> 0, nb |-> 0, hist |-> <<>>,
     dict |-> <<>>, wr |-> 0, toRead |-> <<>>,
     step |-> "nextBlock", stepState |-> "stateInit",
     copyLen |-> 0, copyDist |-> 0, final |-> FALSE, hl |-> <<>>, hd |-> <<>>,
     ferr |-> Nil, digest |-> AdlerInit, err |-> Nil]

\* (b *bufio.Reader) Read(p) with len(p) = n > 0
BufioRead(s, n) ==
    IF s.z.buf # <<>>
    THEN [s |-> [s EXCEPT !.z.buf = SubSeq(s.z.buf, min(n, Len(s.z.buf)) + 1, Len(s.z.buf))],
          bytes |-> SubSeq(s.z.buf, 1, min(n, Len(s.z.buf))), err |-> Nil]
    ELSE IF s.z.berr # Nil
    THEN [s |-> [s EXCEPT !.z.berr = Nil], bytes |-> <<>>, err |-> s.z.berr]
    ELSE
    \* a read of at least the buffer's size goes to d directly; a smaller one
    \* fills the buffer with one d.Read and copies from it
    The({ IF n >= BufioSize \/ rd.bytes = <<>>
          THEN [s |-> [s EXCEPT !.d = rd.d], bytes |-> rd.bytes, err |-> rd.err]
          ELSE [s |-> [s EXCEPT !.d = rd.d, !.z.berr = rd.err,
                                !.z.buf = SubSeq(rd.bytes, min(n, Len(rd.bytes)) + 1,
                                                 Len(rd.bytes))],
                bytes |-> SubSeq(rd.bytes, 1, min(n, Len(rd.bytes))), err |-> Nil]
        : rd \in {Read(s.d, IF n >= BufioSize THEN n ELSE BufioSize)} })

\* the error of io.ReadFull after a read that returned the error e, with got
\* bytes read of the n wanted
ReadFullErr(got, n, e) ==
    IF got >= n THEN Nil
    ELSE IF got > 0 /\ e = EOF THEN ErrUnexpectedEOF
    ELSE e

\* io.ReadFull(b, buf) on the bufio.Reader, len(buf) = n, acc the bytes so far
RECURSIVE BufioReadFull(_, _, _)
BufioReadFull(s, n, acc) ==
    IF Len(acc) >= n THEN [s |-> s, bytes |-> acc, err |-> Nil]
    ELSE
    The({ IF rd.err = Nil THEN BufioReadFull(rd.s, n, acc \o rd.bytes)
          ELSE [s |-> rd.s, bytes |-> acc \o rd.bytes,
                err |-> ReadFullErr(Len(acc) + Len(rd.bytes), n, rd.err)]
        : rd \in {BufioRead(s, n - Len(acc))} })

\* (b *bufio.Reader) ReadByte
BufioReadByte(s) ==
    The({ [s |-> rd.s, byte |-> IF rd.bytes = <<>> THEN 0 ELSE rd.bytes[1], err |-> rd.err]
        : rd \in {BufioRead(s, 1)} })

noEOF(e) == IF e = EOF THEN ErrUnexpectedEOF ELSE e

(***************************************************************************)
(* compress/flate: Huffman decoders.  A huffmanDecoder is held as min, the *)
(* least code length, count[n], the number of codes of n bits, and         *)
(* symbols, the symbols with a code in the order of their codes (by        *)
(* length, then by symbol): what the library's lookup tables are built     *)
(* from.                                                                   *)
(***************************************************************************)
\* the symbols of indices lo..hi whose code has n bits, in order
RECURSIVE SymbolsOfLength(_, _, _, _)
SymbolsOfLength(lengths, n, lo, hi) ==
    IF lo > hi THEN <<>>
    ELSE IF lo = hi THEN (IF lengths[lo] = n THEN <<lo - 1>> ELSE <<>>)
    ELSE SymbolsOfLength(lengths, n, lo, (lo + hi) \div 2)
         \o SymbolsOfLength(lengths, n, ((lo + hi) \div 2) + 1, hi)

\* the symbols in the order of their codes: by length (the lengths in use),
\* then by symbol
RECURSIVE SymbolsFrom(_, _, _)
SymbolsFrom(lengths, used, n) ==
    IF n > 15 THEN <<>>
    ELSE (IF n \in used THEN SymbolsOfLength(lengths, n, 1, Len(lengths)) ELSE <<>>)
         \o SymbolsFrom(lengths, used, n + 1)

\* the code after the last one of n bits, in max bits: the codes of up to n
\* bits take code values below it
RECURSIVE CodeAfter(_, _, _)
CodeAfter(count, n, max) ==
    IF n = 0 THEN 0
    ELSE CodeAfter(count, n - 1, max) + count[n] * 2^(max - n)

\* a decoder with no code
emptyDecoder == [min |-> 0, count |-> [n \in 1..15 |-> 0], symbols |-> <<>>]

\* (h *huffmanDecoder) init(lengths): ok unless the code is incomplete or
\* over-subscribed; a code of one symbol of one bit is accepted
huffmanDecoderInit(lengths) ==
    The({ IF used = {} THEN [ok |-> TRUE, h |-> emptyDecoder]
          ELSE
          The({ [ok |-> \/ CodeAfter(count, max, max) = 2^max
                        \/ (CodeAfter(count, max, max) = 1 /\ max = 1),
                 h |-> [min |-> CHOOSE n \in used : \A m \in used : n <= m,
                        count |-> count,
                        symbols |-> SymbolsFrom(lengths, used, 1)]]
              : count \in {[n \in 1..15 |->
                              Cardinality({ i \in 1..Len(lengths) : lengths[i] = n })]},
                max \in {CHOOSE n \in used : \A m \in used : n >= m} })
        : used \in {{ lengths[i] : i \in 1..Len(lengths) } \ {0}} })

\* fixedHuffmanDecoder: the literal/length code of a block of type 1
fixedHuffmanDecoder ==
    huffmanDecoderInit([i \in 1..288 |-> IF i <= 144 THEN 8
                                         ELSE IF i <= 256 THEN 9
                                         ELSE IF i <= 280 THEN 7
                                         ELSE 8]).h

\* the entry of h.chunks and h.links for the bits b: the symbol whose code
\* the bits begin with, first bit lowest, and the code's length n; n = 0 when
\* no code begins them.  ln is the length tried, code the bits so far as a
\* code, first the first code of ln bits and index the symbols before it.
RECURSIVE chunkOf(_, _, _, _, _, _)
chunkOf(h, b, ln, code, first, index) ==
    IF ln > 15 THEN [n |-> 0, sym |-> 0]
    ELSE
    The({ IF c - h.count[ln] < first
          THEN [n |-> ln, sym |-> h.symbols[index + (c - first) + 1]]
          ELSE chunkOf(h, b \div 2, ln + 1, 2 * c, 2 * (first + h.count[ln]),
                       index + h.count[ln])
        : c \in {code + (b % 2)} })

\* (f *decompressor) moreBits
moreBits(s) ==
    The({ IF rd.err # Nil THEN [s |-> rd.s, err |-> noEOF(rd.err)]
          ELSE [s |-> [rd.s EXCEPT !.z.b = s.z.b + rd.byte * (2^(s.z.nb)),
                                   !.z.nb = s.z.nb + 8],
                err |-> Nil]
        : rd \in {BufioReadByte(s)} })

\* for f.nb < n { f.moreBits() }, up to the first error
RECURSIVE needBits(_, _)
needBits(s, n) ==
    IF s.z.nb >= n THEN [s |-> s, err |-> Nil]
    ELSE The({ IF mb.err # Nil THEN mb ELSE needBits(mb.s, n) : mb \in {moreBits(s)} })

\* the n lowest bits of the bit buffer, and the state with them taken
lowBits(s, n) == s.z.b % 2^n

dropBits(s, n) == [s EXCEPT !.z.b = s.z.b \div 2^n, !.z.nb = s.z.nb - n]

\* the loop of (f *decompressor) huffSym(h) with n bits wanted: bytes are read
\* until the bits held contain the whole code they begin with
RECURSIVE huffSymLoop(_, _, _)
huffSymLoop(s, h, n) ==
    IF s.z.nb < n
    THEN The({ IF mb.err # Nil THEN [s |-> mb.s, sym |-> 0, err |-> mb.err]
               ELSE huffSymLoop(mb.s, h, n)
             : mb \in {moreBits(s)} })
    ELSE The({ IF chunk.n > s.z.nb THEN huffSymLoop(s, h, chunk.n)
               ELSE IF chunk.n = 0
               THEN [s |-> [s EXCEPT !.z.ferr = FlateCorruptInput], sym |-> 0,
                     err |-> FlateCorruptInput]
               ELSE [s |-> dropBits(s, chunk.n), sym |-> chunk.sym, err |-> Nil]
             : chunk \in {chunkOf(h, s.z.b, 1, 0, 0, 0)} })

\* (f *decompressor) huffSym(h)
huffSym(s, h) == huffSymLoop(s, h, h.min)

(***************************************************************************)
(* compress/flate: the window and the blocks.                              *)
(***************************************************************************)
\* the last n elements of q
LastOf(q, n) == IF Len(q) <= n THEN q ELSE SubSeq(q, Len(q) - n + 1, Len(q))

\* bytes written to the window at its write offset (dictDecoder writeByte,
\* writeMark, writeCopy)
dictWrite(s, bytes) ==
    [s EXCEPT !.z.dict = s.z.dict \o bytes,
              !.z.wr = s.z.wr + Len(bytes),
              !.z.hist = LastOf(s.z.hist \o bytes, WindowSize)]

\* (dd *dictDecoder) readFlush
readFlush(s) ==
    [s EXCEPT !.z.toRead = s.z.dict, !.z.dict = <<>>,
              !.z.wr = IF s.z.wr = WindowSize THEN 0 ELSE s.z.wr]

\* (f *decompressor) finishBlock
finishBlock(s) ==
    [(IF s.z.final
      THEN [(IF s.z.dict # <<>> THEN readFlush(s) ELSE s) EXCEPT !.z.ferr = EOF]
      ELSE s) EXCEPT !.z.step = "nextBlock"]

\* (f *decompressor) copyData
copyData(s) ==
    The({ The({ IF rd.err # Nil THEN [s1 EXCEPT !.z.ferr = noEOF(rd.err)]
                ELSE IF s1.z.wr = WindowSize \/ s1.z.copyLen > 0
                THEN [readFlush(s1) EXCEPT !.z.step = "copyData"]
                ELSE finishBlock(s1)
              : s1 \in {[dictWrite(rd.s, rd.bytes)
                            EXCEPT !.z.copyLen = s.z.copyLen - Len(rd.bytes)]} })
        : rd \in {BufioReadFull(s, min(s.z.copyLen, WindowSize - s.z.wr), <<>>)} })

\* (f *decompressor) dataBlock: the bits left of the current byte are
\* dropped; n is the block's length, nn its complement
dataBlock(s) ==
    The({ IF rd.err # Nil THEN [rd.s EXCEPT !.z.ferr = noEOF(rd.err)]
          ELSE
          The({ IF nn # 65535 - n THEN [rd.s EXCEPT !.z.ferr = FlateCorruptInput]
                ELSE IF n = 0 THEN finishBlock(readFlush(rd.s))
                ELSE copyData([rd.s EXCEPT !.z.copyLen = n])
              : n \in {rd.bytes[1] + 256 * rd.bytes[2]},
                nn \in {rd.bytes[3] + 256 * rd.bytes[4]} })
        : rd \in {BufioReadFull([s EXCEPT !.z.b = 0, !.z.nb = 0], 4, <<>>)} })

\* the length of the match of literal/length symbol v (257..285) before its
\* extra bits, and the number n of the extra bits
lengthOf(v) ==
    IF v < 265 THEN [length |-> v - 254, n |-> 0]
    ELSE IF v < 269 THEN [length |-> v * 2 - 519, n |-> 1]
    ELSE IF v < 273 THEN [length |-> v * 4 - 1057, n |-> 2]
    ELSE IF v < 277 THEN [length |-> v * 8 - 2149, n |-> 3]
    ELSE IF v < 281 THEN [length |-> v * 16 - 4365, n |-> 4]
    ELSE IF v < 285 THEN [length |-> v * 32 - 8861, n |-> 5]
    ELSE [length |-> 258, n |-> 0]

\* bits.Reverse8(x << 3) of a 5-bit x
Reverse5(x) ==
    16 * (x % 2) + 8 * ((x \div 2) % 2) + 4 * ((x \div 4) % 2)
    + 2 * ((x \div 8) % 2) + ((x \div 16) % 2)

\* A pass of huffmanBlock is [s |-> the state after it, more |-> whether the
\* block goes on with the next symbol (goto readLiteral)].
stop(s) == [s |-> s, more |-> FALSE]

\* copyHistory of huffmanBlock: the match is copied as far as the window has
\* room; the block goes on when the match is done and the window not full
copyHistory(s) ==
    The({ The({ IF s1.z.wr = WindowSize \/ s1.z.copyLen > 0
                THEN stop([readFlush(s1) EXCEPT !.z.step = "huffmanBlock",
                                                !.z.stepState = "stateDict"])
                ELSE [s |-> s1, more |-> TRUE]
              : s1 \in {[dictWrite(s, [k \in 1..cnt |->
                                         s.z.hist[Len(s.z.hist) - s.z.copyDist
                                                  + ((k - 1) % s.z.copyDist) + 1]])
                            EXCEPT !.z.copyLen = s.z.copyLen - cnt]} })
        : cnt \in {min(s.z.copyLen, WindowSize - s.z.wr)} })

\* the match of length bytes at distance dist, which the window must hold
copyMatch(s, length, dist) ==
    IF dist > Len(s.z.hist) THEN stop([s EXCEPT !.z.ferr = FlateCorruptInput])
    ELSE copyHistory([s EXCEPT !.z.copyLen = length, !.z.copyDist = dist])

\* the distance symbol: five bits, reversed, when f.hd is nil
distSym(s) ==
    IF s.z.hd = <<>>
    THEN The({ IF nb.err # Nil THEN [s |-> nb.s, sym |-> 0, err |-> nb.err]
               ELSE [s |-> dropBits(nb.s, 5), sym |-> Reverse5(lowBits(nb.s, 5)),
                     err |-> Nil]
             : nb \in {needBits(s, 5)} })
    ELSE huffSym(s, s.z.hd[1])

\* the distance of the match of length bytes: its symbol and extra bits
readDistance(s, length) ==
    The({ IF ds.err # Nil THEN stop([ds.s EXCEPT !.z.ferr = ds.err])
          ELSE IF ds.sym < 4 THEN copyMatch(ds.s, length, ds.sym + 1)
          ELSE IF ds.sym >= maxNumDist THEN stop([ds.s EXCEPT !.z.ferr = FlateCorruptInput])
          ELSE
          The({ The({ IF nb.err # Nil THEN stop([nb.s EXCEPT !.z.ferr = nb.err])
                      ELSE copyMatch(dropBits(nb.s, k), length,
                                     2^(k + 1) + 1 + (ds.sym % 2) * 2^k + lowBits(nb.s, k))
                    : nb \in {needBits(ds.s, k)} })
              : k \in {(ds.sym - 2) \div 2} })
        : ds \in {distSym(s)} })

\* the match of literal/length symbol v: the extra bits of its length
readLength(s, v) ==
    The({ The({ IF nb.err # Nil THEN stop([nb.s EXCEPT !.z.ferr = nb.err])
                ELSE readDistance(dropBits(nb.s, lo.n), lo.length + lowBits(nb.s, lo.n))
              : nb \in {needBits(s, lo.n)} })
        : lo \in {lengthOf(v)} })

\* readLiteral of huffmanBlock, once: a literal, the end of the block, or a
\* match and its copy
readLiteral(s) ==
    The({ IF hs.err # Nil THEN stop([hs.s EXCEPT !.z.ferr = hs.err])
          ELSE IF hs.sym < 256
          THEN The({ IF s1.z.wr = WindowSize
                     THEN stop([readFlush(s1) EXCEPT !.z.step = "huffmanBlock",
                                                     !.z.stepState = "stateInit"])
                     ELSE [s |-> s1, more |-> TRUE]
                   : s1 \in {dictWrite(hs.s, <<hs.sym>>)} })
          ELSE IF hs.sym = endBlockMarker THEN stop(finishBlock(hs.s))
          ELSE IF hs.sym >= maxNumLit THEN stop([hs.s EXCEPT !.z.ferr = FlateCorruptInput])
          ELSE readLength(hs.s, hs.sym)
        : hs \in {huffSym(s, s.z.hl[1])} })

\* readLiteral again and again while the block goes on, up to 2^k times; a
\* pass writes a byte or ends the block, and a full window ends the passes
RECURSIVE readLiterals(_, _)
readLiterals(p, k) ==
    IF ~p.more THEN p
    ELSE IF k = 0 THEN readLiteral(p.s)
    ELSE The({ readLiterals(p1, k - 1) : p1 \in {readLiterals(p, k - 1)} })

\* (f *decompressor) huffmanBlock
huffmanBlock(s) ==
    readLiterals(IF s.z.stepState = "stateDict" THEN copyHistory(s)
                 ELSE [s |-> s, more |-> TRUE], 16).s

\* the nclen lengths of the code length code, three bits each, as read
RECURSIVE readCodebits(_, _, _)
readCodebits(s, nclen, acc) ==
    IF Len(acc) >= nclen THEN [s |-> s, bits |-> acc, err |-> Nil]
    ELSE The({ IF nb.err # Nil THEN [s |-> nb.s, bits |-> acc, err |-> nb.err]
               ELSE readCodebits(dropBits(nb.s, 3), nclen, Append(acc, lowBits(nb.s, 3)))
             : nb \in {needBits(s, 3)} })

\* f.codebits: the lengths read, each at its place in codeOrder, zero elsewhere
codebitsOf(read) ==
    [sym \in 1..19 |->
        IF \E i \in 1..Len(read) : codeOrder[i] = sym - 1
        THEN read[CHOOSE i \in 1..Len(read) : codeOrder[i] = sym - 1]
        ELSE 0]

\* one pass of the loop of readHuffman over the n code lengths f.bits of the
\* literal/length and distance codes, read with the code length code h: a
\* length, or a repeat of the last length or of zero
readLength1(s, h, n, bits) ==
    The({ IF hs.err # Nil THEN [s |-> hs.s, bits |-> bits, err |-> hs.err]
          ELSE IF hs.sym < 16 THEN [s |-> hs.s, bits |-> Append(bits, hs.sym), err |-> Nil]
          ELSE IF hs.sym = 16 /\ bits = <<>>
          THEN [s |-> hs.s, bits |-> bits, err |-> FlateCorruptInput]
          ELSE
          The({ The({ IF nb.err # Nil THEN [s |-> nb.s, bits |-> bits, err |-> nb.err]
                      ELSE IF Len(bits) + rp.rep + lowBits(nb.s, rp.nb) > n
                      THEN [s |-> dropBits(nb.s, rp.nb), bits |-> bits,
                            err |-> FlateCorruptInput]
                      ELSE [s |-> dropBits(nb.s, rp.nb),
                            bits |-> bits \o [j \in 1..(rp.rep + lowBits(nb.s, rp.nb)) |-> rp.b],
                            err |-> Nil]
                    : nb \in {needBits(hs.s, rp.nb)} })
              : rp \in {IF hs.sym = 16 THEN [rep |-> 3, nb |-> 2, b |-> bits[Len(bits)]]
                        ELSE IF hs.sym = 17 THEN [rep |-> 3, nb |-> 3, b |-> 0]
                        ELSE [rep |-> 11, nb |-> 7, b |-> 0]} })
        : hs \in {huffSym(s, h)} })

\* the loop: passes up to the n lengths or an error, up to 2^k of them
RECURSIVE readLengths(_, _, _, _)
readLengths(r, h, n, k) ==
    IF r.err # Nil \/ Len(r.bits) >= n THEN r
    ELSE IF k = 0 THEN readLength1(r.s, h, n, r.bits)
    ELSE The({ readLengths(r1, h, n, k - 1) : r1 \in {readLengths(r, h, n, k - 1)} })

\* readHuffman after the counts: the code length code, the code lengths and
\* the two decoders, the literal/length decoder reading at least the bits
\* of the end-of-block code
readHuffmanCodes(s, nlit, ndist, nclen) ==
    The({ IF cb.err # Nil THEN [s |-> cb.s, err |-> cb.err]
          ELSE
          The({ IF ~h1.ok THEN [s |-> cb.s, err |-> FlateCorruptInput]
                ELSE
                The({ IF rl.err # Nil THEN [s |-> rl.s, err |-> rl.err]
                      ELSE
                      The({ IF ~hl.ok \/ ~hd.ok
                            THEN [s |-> rl.s, err |-> FlateCorruptInput]
                            ELSE [s |-> [rl.s EXCEPT
                                           !.z.hl = <<[hl.h EXCEPT !.min =
                                                         IF hl.h.min < rl.bits[endBlockMarker + 1]
                                                         THEN rl.bits[endBlockMarker + 1]
                                                         ELSE hl.h.min]>>,
                                           !.z.hd = <<hd.h>>],
                                  err |-> Nil]
                          : hl \in {huffmanDecoderInit(SubSeq(rl.bits, 1, nlit))},
                            hd \in {huffmanDecoderInit(SubSeq(rl.bits, nlit + 1, nlit + ndist))} })
                    : rl \in {readLengths([s |-> cb.s, bits |-> <<>>, err |-> Nil],
                                           h1.h, nlit + ndist, 9)} })
              : h1 \in {huffmanDecoderInit(codebitsOf(cb.bits))} })
        : cb \in {readCodebits(s, nclen, <<>>)} })

\* (f *decompressor) readHuffman: HLIT, HDIST and HCLEN, then the codes; with
\* no error the state's hl and hd are the block's decoders
readHuffman(s) ==
    The({ IF nb.err # Nil THEN nb
          ELSE IF lowBits(nb.s, 5) + 257 > maxNumLit
          THEN [s |-> nb.s, err |-> FlateCorruptInput]
          ELSE IF ((nb.s.z.b \div 32) % 32) + 1 > maxNumDist
          THEN [s |-> [nb.s EXCEPT !.z.b = nb.s.z.b \div 32], err |-> FlateCorruptInput]
          ELSE readHuffmanCodes(dropBits(nb.s, 14), lowBits(nb.s, 5) + 257,
                                ((nb.s.z.b \div 32) % 32) + 1,
                                ((nb.s.z.b \div 1024) % 16) + 4)
        : nb \in {needBits(s, 14)} })

\* (f *decompressor) nextBlock: the final bit and the two bits of the type
nextBlock(s) ==
    The({ IF nb.err # Nil THEN [nb.s EXCEPT !.z.ferr = nb.err]
          ELSE
          The({ IF typ = 0 THEN dataBlock(s1)
                ELSE IF typ = 1
                THEN huffmanBlock([s1 EXCEPT !.z.hl = <<fixedHuffmanDecoder>>,
                                             !.z.hd = <<>>])
                ELSE IF typ = 2
                THEN The({ IF rh.err # Nil THEN [rh.s EXCEPT !.z.ferr = rh.err]
                           ELSE huffmanBlock(rh.s)
                         : rh \in {readHuffman(s1)} })
                ELSE [s1 EXCEPT !.z.ferr = FlateCorruptInput]
              : typ \in {(nb.s.z.b \div 2) % 4},
                s1 \in {[dropBits(nb.s, 3) EXCEPT !.z.final = (nb.s.z.b % 2 = 1)]} })
        : nb \in {needBits(s, 3)} })

\* f.step(f)
FlateStep(s) ==
    IF s.z.step = "copyData" THEN copyData(s)
    ELSE IF s.z.step = "huffmanBlock" THEN huffmanBlock(s)
    ELSE nextBlock(s)

\* (f *decompressor) Read(b) with len(b) = n > 0
RECURSIVE FlateRead(_, _)
FlateRead(s, n) ==
    IF s.z.toRead # <<>>
    THEN The({ [s |-> [s EXCEPT !.z.toRead = SubSeq(s.z.toRead, k + 1, Len(s.z.toRead))],
                bytes |-> SubSeq(s.z.toRead, 1, k),
                err |-> IF k = Len(s.z.toRead) THEN s.z.ferr ELSE Nil]
             : k \in {min(n, Len(s.z.toRead))} })
    ELSE IF s.z.ferr # Nil THEN [s |-> s, bytes |-> <<>>, err |-> s.z.ferr]
    ELSE The({ FlateRead(IF s1.z.ferr # Nil /\ s1.z.toRead = <<>> THEN readFlush(s1) ELSE s1, n)
             : s1 \in {FlateStep(s)} })

\* (z *reader) Read(p) of compress/zlib with len(p) = n > 0
ZlibRead(s, n) ==
    IF s.z.err # Nil THEN [s |-> s, bytes |-> <<>>, err |-> s.z.err]
    ELSE
    The({ The({ IF fr.err # EOF THEN [s |-> s1, bytes |-> fr.bytes, err |-> fr.err]
                ELSE
                \* the end of the deflate stream: the Adler-32 trailer
                The({ IF rd.err # Nil
                      THEN [s |-> [rd.s EXCEPT !.z.err = noEOF(rd.err)],
                            bytes |-> fr.bytes, err |-> noEOF(rd.err)]
                      ELSE IF rd.bytes # AdlerSum(s1.z.digest)
                      THEN [s |-> [rd.s EXCEPT !.z.err = ZlibErrChecksum],
                            bytes |-> fr.bytes, err |-> ZlibErrChecksum]
                      ELSE [s |-> rd.s, bytes |-> fr.bytes, err |-> EOF]
                    : rd \in {BufioReadFull(s1, 4, <<>>)} })
              : s1 \in {[fr.s EXCEPT !.z.err = fr.err,
                                     !.z.digest = AdlerWrite(s.z.digest, fr.bytes)]} })
        : fr \in {FlateRead(s, n)} })

\* io.ReadFull(d.zlibR, buf) with len(buf) = n, acc the bytes so far
RECURSIVE ZlibReadFull(_, _, _)
ZlibReadFull(s, n, acc) ==
    IF Len(acc) >= n THEN [s |-> s, bytes |-> acc, err |-> Nil]
    ELSE
    The({ IF rd.err = Nil THEN ZlibReadFull(rd.s, n, acc \o rd.bytes)
          ELSE [s |-> rd.s, bytes |-> acc \o rd.bytes,
                err |-> ReadFullErr(Len(acc) + Len(rd.bytes), n, rd.err)]
        : rd \in {ZlibRead(s, n - Len(acc))} })

\* (z *reader) Close of compress/zlib: the sticky error unless it is nil or
\* io.EOF, else the error of the decompressor's Close (its error unless io.EOF)
ZlibClose(s) ==
    IF s.z.err # Nil /\ s.z.err # EOF THEN [s |-> s, err |-> s.z.err]
    ELSE IF s.z.ferr = EOF THEN [s |-> [s EXCEPT !.z.err = Nil], err |-> Nil]
    ELSE [s |-> [s EXCEPT !.z.err = s.z.ferr], err |-> s.z.ferr]

\* zlib.NewReader(d): the two header bytes, and the preset dictionary's id
\* when the header asks for one (no dictionary is given)
ZlibNewReader(d) ==
    The({ IF rd.err # Nil THEN [s |-> rd.s, err |-> noEOF(rd.err)]
          ELSE IF rd.bytes[1] % 16 # 8 \/ rd.bytes[1] \div 16 > 7
                  \/ (rd.bytes[1] * 256 + rd.bytes[2]) % 31 # 0
          THEN [s |-> rd.s, err |-> ZlibErrHeader]
          ELSE IF (rd.bytes[2] \div 32) % 2 = 1
          THEN The({ IF rk.err # Nil THEN [s |-> rk.s, err |-> noEOF(rk.err)]
                     ELSE IF rk.bytes # AdlerSum(AdlerInit)
                     THEN [s |-> rk.s, err |-> ZlibErrDictionary]
                     ELSE [s |-> rk.s, err |-> Nil]
                   : rk \in {BufioReadFull(rd.s, 4, <<>>)} })
          ELSE [s |-> rd.s, err |-> Nil]
        : rd \in {BufioReadFull([d |-> d, z |-> NewZlibState], 2, <<>>)} })

(***************************************************************************)
(* NewDecoder.                                                             *)
(***************************************************************************)
\* the loop that discards a chunk of a known length, `length` bytes left
RECURSIVE SkipChunk(_, _)
SkipChunk(d, length) ==
    IF length <= 0 THEN verifyChecksum(d)
    ELSE
    The({ IF rd.err # Nil THEN [d |-> rd.d, err |-> rd.err]
          ELSE SkipChunk([rd.d EXCEPT !.crc = CrcWrite(d.crc, rd.bytes)],
                         length - Len(rd.bytes))
        : rd \in {ReadFull(d, min(IgnoredLen, length))} })

\* case "IHDR" without the test of the stage: a header chunk is parsed
\* wherever it comes
CaseIHDRAnyStage(d1, length) ==
    The({ IF ph.err # Nil THEN [d |-> ph.d, err |-> noEOF(ph.err), next |-> FALSE]
          ELSE [d |-> ph.d, err |-> Nil, next |-> TRUE]
        : ph \in {parseIHDR([d1 EXCEPT !.stage = dsSeenIHDR], length)} })

\* case "IHDR" of the chunk loop; the result's next tells whether the loop
\* goes on
CaseIHDR(d1, length) ==
    IF d1.stage # dsStart THEN [d |-> d1, err |-> chunkOrderError, next |-> FALSE]
    ELSE
    The({ IF ph.err # Nil THEN [d |-> ph.d, err |-> noEOF(ph.err), next |-> FALSE]
          ELSE IF ph.d.cb # cbTCA8
          THEN [d |-> ph.d,
                err |-> [kind |-> "fmt",
                         msg |-> "color type and bit depth not cbTCA8 %v",
                         arg |-> <<ph.d.cb>>],
                next |-> FALSE]
          ELSE [d |-> ph.d, err |-> Nil, next |-> TRUE]
        : ph \in {parseIHDR([d1 EXCEPT !.stage = dsSeenIHDR], length)} })

\* case "IDAT" without the test of the stage
CaseIDATAnyStage(d1, length) ==
    [d |-> [d1 EXCEPT !.idatLength = length, !.stage = dsSeenIDAT], err |-> Nil, next |-> FALSE]

\* case "IDAT" of the chunk loop
CaseIDAT(d1, length) ==
    IF d1.stage < dsSeenIHDR \/ d1.stage > dsSeenIDAT
    THEN [d |-> d1, err |-> chunkOrderError, next |-> FALSE]
    ELSE [d |-> [d1 EXCEPT !.idatLength = length, !.stage = dsSeenIDAT],
          err |-> Nil, next |-> FALSE]

\* the default case of the chunk loop: length is the 32-bit pattern, negative
\* for a length above 0x7fffffff
CaseDefault(d1, length, lenBytes) ==
    IF length < 0
    THEN [d |-> d1, err |-> FormatErrorf("Bad chunk length: %d", lenBytes), next |-> FALSE]
    ELSE The({ [d |-> sk.d, err |-> sk.err, next |-> sk.err = Nil]
             : sk \in {SkipChunk(d1, length)} })

\* the chunk loop of NewDecoder: dispatch on chunk headers until an IDAT
\* chunk's header has been read
\* one turn of the loop: a chunk header is read and the chunk dispatched
ChunkStep(d) ==
    The({ IF rd.err # Nil THEN [d |-> rd.d, err |-> rd.err, next |-> FALSE]
          ELSE
          The({ IF header = TagIHDR THEN CaseIHDR(d1, length)
                ELSE IF header = TagIDAT THEN CaseIDAT(d1, length)
                ELSE CaseDefault(d1, length, SubSeq(rd.bytes, 1, 4))
              : length \in {BigEndianUint32(SubSeq(rd.bytes, 1, 4))},
                header \in {SubSeq(rd.bytes, 5, 8)},
                d1 \in {[rd.d EXCEPT !.crc = CrcWrite(CrcReset, SubSeq(rd.bytes, 5, 8))]} })
        : rd \in {ReadFull(d, 8)} })

RECURSIVE ChunkLoop(_)
ChunkLoop(d) ==
    The({ IF step.next THEN ChunkLoop(step.d) ELSE [d |-> step.d, err |-> step.err]
        : step \in {ChunkStep(d)} })

\* make([]uint8, n)
Zeros(n) == [i \in 1..n |-> 0]

\* NewDecoder(r) on the stream: the error, and the decoder and decompressor
\* as the call leaves them.  (With a 64-bit int the row size of a 31-bit
\* width cannot overflow.)
NewDecoder ==
    The({ IF ch.err # Nil THEN [err |-> noEOF(ch.err), s |-> [d |-> ch.d, z |-> NewZlibState]]
          ELSE
          The({ IF cl.err # Nil THEN [err |-> cl.err, s |-> [d |-> cl.d, z |-> NewZlibState]]
                ELSE The({ [err |-> zr.err, s |-> zr.s] : zr \in {ZlibNewReader(cl.d)} })
              : cl \in {ChunkLoop(ch.d)} })
        : ch \in {checkHeader(NewDecoderStruct)} })

bitsPerPixel == 32

rowSizeOf(width) == 1 + (bitsPerPixel * width + 7) \div 8

\* struct Decoder after a successful NewDecoder: the two row buffers in bufs,
\* and cr, pr the indices of the current and the previous row's buffer
NewDecoderRows(width) ==
    [bytesPerPixel |-> (bitsPerPixel + 7) \div 8,
     bufs |-> <<Zeros(rowSizeOf(width)), Zeros(rowSizeOf(width))>>,
     cr |-> 1, pr |-> 2, y |-> 0]

(***************************************************************************)
(* The filters of DecodeRow, on cdat = cr[1:] and pdat = pr[1:] (indices   *)
(* here start at 1).  uint8 arithmetic wraps modulo 256.                   *)
(***************************************************************************)
RECURSIVE SubLoop(_, _, _)
SubLoop(cdat, i, bpp) ==
    IF i > Len(cdat) THEN cdat
    ELSE SubLoop([cdat EXCEPT ![i] = (cdat[i] + cdat[i - bpp]) % 256], i + 1, bpp)

filterSub(cdat, bpp) == SubLoop(cdat, bpp + 1, bpp)

\* a reconstruction that leaves the row above out of the Up filter
filterUpIgnored(cdat, pdat) == cdat

filterUp(cdat, pdat) == [i \in 1..Len(cdat) |-> (cdat[i] + pdat[i]) % 256]

\* the Average loop with the sum of the two bytes formed in 8 bits
RECURSIVE AverageLoopWrap(_, _, _, _)
AverageLoopWrap(cdat, pdat, i, bpp) ==
    IF i > Len(cdat) THEN cdat
    ELSE AverageLoopWrap(
            [cdat EXCEPT ![i] = (cdat[i] + (((cdat[i - bpp] + pdat[i]) % 256) \div 2)) % 256],
            pdat, i + 1, bpp)

RECURSIVE AverageLoop(_, _, _, _)
AverageLoop(cdat, pdat, i, bpp) ==
    IF i > Len(cdat) THEN cdat
    ELSE AverageLoop(
            [cdat EXCEPT ![i] = (cdat[i] + (((cdat[i - bpp] + pdat[i]) \div 2) % 256)) % 256],
            pdat, i + 1, bpp)

filterAverage(cdat, pdat, bpp) ==
    AverageLoop([i \in 1..Len(cdat) |->
                    IF i <= bpp THEN (cdat[i] + (pdat[i] \div 2)) % 256 ELSE cdat[i]],
                pdat, bpp + 1, bpp)

abs(x) == IF x < 0 THEN -x ELSE x

\* the Paeth predictor: of a (left), b (up), c (upper left), the one nearest
\* to a + b - c, ties in the order a, b, c
paeth(a, b, c) ==
    IF abs(b - c) <= abs(a - c) /\ abs(b - c) <= abs(a + b - 2 * c) THEN a
    ELSE IF abs(a - c) <= abs(a + b - 2 * c) THEN b
    ELSE c

RECURSIVE PaethLoop(_, _, _, _)
PaethLoop(cdat, pdat, i, bpp) ==
    IF i > Len(cdat) THEN cdat
    ELSE PaethLoop([cdat EXCEPT ![i] =
                        (cdat[i] + paeth(IF i > bpp THEN cdat[i - bpp] ELSE 0,
                                         pdat[i],
                                         IF i > bpp THEN pdat[i - bpp] ELSE 0)) % 256],
                   pdat, i + 1, bpp)

filterPaeth(cdat, pdat, bpp) == PaethLoop(cdat, pdat, 1, bpp)

\* the switch of DecodeRow on the filter type cr[0]: ok is FALSE for the
\* default case
ApplyFilter(ft, cdat, pdat, bpp) ==
    IF ft = ftNone THEN [ok |-> TRUE, cdat |-> cdat]
    ELSE IF ft = ftSub THEN [ok |-> TRUE, cdat |-> filterSub(cdat, bpp)]
    ELSE IF ft = ftUp THEN [ok |-> TRUE, cdat |-> filterUp(cdat, pdat)]
    ELSE IF ft = ftAverage THEN [ok |-> TRUE, cdat |-> filterAverage(cdat, pdat, bpp)]
    ELSE IF ft = ftPaeth THEN [ok |-> TRUE, cdat |-> filterPaeth(cdat, pdat, bpp)]
    ELSE [ok |-> FALSE, cdat |-> cdat]

Tail1(row) == SubSeq(row, 2, Len(row))

(***************************************************************************)
(* DecodeRow and Close, on a session [s, dec].  DecodeRow's result names   *)
(* the buffer the returned slice aliases (ret = 0: a nil slice).           *)
(***************************************************************************)
\* the end of DecodeRow with y left as it is
FinishRowNoCount(dec, row) ==
    [dec EXCEPT !.bufs[dec.cr] = row, !.pr = dec.cr, !.cr = dec.pr]

\* the end of DecodeRow without the swap of d.pr and d.cr
FinishRowNoSwap(dec, row) ==
    [dec EXCEPT !.bufs[dec.cr] = row, !.y = dec.y + 1]

\* the end of DecodeRow with the row copied into d.pr instead of the swap
FinishRowCopy(dec, row) ==
    [dec EXCEPT !.bufs[dec.cr] = row, !.bufs[dec.pr] = row, !.y = dec.y + 1]

\* the end of a successful DecodeRow: d.cr holds row (the filter type and the
\* reconstructed bytes), the buffers swap roles, y counts the row
FinishRow(dec, row) ==
    [dec EXCEPT !.bufs[dec.cr] = row, !.pr = dec.cr, !.cr = dec.pr, !.y = dec.y + 1]

DecodeRow(s, dec) ==
    IF dec.y >= s.d.height
    THEN [s |-> s, dec |-> dec, ret |-> 0, err |-> EOF]
    ELSE
    The({ \* io.ReadFull stores what it read at the front of d.cr
          The({ IF rf.err # Nil
                THEN [s |-> rf.s, dec |-> [dec EXCEPT !.bufs[dec.cr] = cr], ret |-> 0,
                      err |-> IF rf.err = EOF \/ rf.err = ErrUnexpectedEOF
                              THEN FormatError("not enough pixel data") ELSE rf.err]
                ELSE
                The({ IF ~fl.ok
                      THEN [s |-> rf.s, dec |-> [dec EXCEPT !.bufs[dec.cr] = cr], ret |-> 0,
                            err |-> FormatError("bad filter type")]
                      ELSE [s |-> rf.s, dec |-> FinishRow(dec, <<cr[1]>> \o fl.cdat),
                            ret |-> dec.cr, err |-> Nil]
                    : fl \in {ApplyFilter(cr[1], Tail1(cr), Tail1(dec.bufs[dec.pr]),
                                          dec.bytesPerPixel)} })
              : cr \in {rf.bytes \o SubSeq(dec.bufs[dec.cr], Len(rf.bytes) + 1,
                                           Len(dec.bufs[dec.cr]))} })
        : rf \in {ZlibReadFull(s, Len(dec.bufs[dec.cr]), <<>>)} })

Close(s) ==
    IF s.d.stage = dsSeenIEND THEN [s |-> s, err |-> Nil]
    ELSE
    The({ IF zc.err # Nil THEN zc
          ELSE
          The({ IF vc.err # Nil THEN [s |-> [zc.s EXCEPT !.d = vc.d], err |-> vc.err]
                ELSE The({ [s |-> [zc.s EXCEPT !.d = ie.d], err |-> ie.err]
                         : ie \in {readIEND(vc.d)} })
              : vc \in {verifyChecksum(zc.s.d)} })
        : zc \in {ZlibClose(s)} })

\* Bounds: image.Rect(0, 0, width, height)
Bounds(s) == <<0, 0, s.d.width, s.d.height>>

(***************************************************************************)
(* Input streams.  A stream is the signature followed by chunks; the       *)
(* pixel data is a zlib stream of deflate blocks.                          *)
(***************************************************************************)
\* one chunk: length, tag, payload, CRC-32 of tag and payload
Chunk(tag, payload) ==
    PutUint32(Len(payload)) \o tag \o payload \o CrcWrite(CrcReset, tag \o payload)

\* a chunk whose stored CRC is wrong (its last byte differs)
BadCrcChunk(tag, payload) ==
    The({ [c EXCEPT ![Len(c)] = (c[Len(c)] + 1) % 256] : c \in {Chunk(tag, payload)} })

RECURSIVE Concat(_)
Concat(ss) == IF ss = <<>> THEN <<>> ELSE Head(ss) \o Concat(Tail(ss))

\* the 13 bytes of an IHDR payload
IHDRPayload(w, h, depth, ct, cm, fm, il) ==
    PutUint32(w) \o PutUint32(h) \o <<depth, ct, cm, fm, il>>

\* one stored deflate block holding data
StoredBlock(final, data) ==
    << IF final THEN 1 ELSE 0, Len(data) % 256, Len(data) \div 256,
       255 - (Len(data) % 256), 255 - (Len(data) \div 256) >> \o data

\* a zlib stream: header 78 01, the stored blocks (the last one final), and
\* the Adler-32 of the data
ZlibStored(blocks) ==
    <<120, 1>>
    \o Concat([i \in 1..Len(blocks) |-> StoredBlock(i = Len(blocks), blocks[i])])
    \o AdlerSum(AdlerWrite(AdlerInit, Concat(blocks)))

(***************************************************************************)
(* Deflate streams with Huffman-coded blocks, for the inputs.  A block is  *)
(* [coding |-> "stored", "fixed" or "dynamic", data |-> its bytes].  A     *)
(* Huffman-coded block holds literals and matches: a run of three or more  *)
(* bytes equal to the bytes dist before is a match.  A dynamic block has   *)
(* one code for all streams: nine bits for a literal, two for the end of   *)
(* the block, five for the match lengths 3..10, and one distance symbol.   *)
(***************************************************************************)
\* the n bits of v, highest first (a Huffman code) and lowest first (a field)
RECURSIVE BitsMsb(_, _)
BitsMsb(v, n) == IF n = 0 THEN <<>> ELSE <<(v \div (2^(n - 1))) % 2>> \o BitsMsb(v, n - 1)

BitsLsb(v, n) == [i \in 1..n |-> (v \div (2^(i - 1))) % 2]

BitAt(bits, k) == IF k <= Len(bits) THEN bits[k] ELSE 0

\* bits packed into bytes, the first bit the lowest bit of the first byte
PackBits(bits) ==
    [i \in 1..((Len(bits) + 7) \div 8) |->
        BitAt(bits, 8 * i - 7) + 2 * BitAt(bits, 8 * i - 6) + 4 * BitAt(bits, 8 * i - 5)
        + 8 * BitAt(bits, 8 * i - 4) + 16 * BitAt(bits, 8 * i - 3) + 32 * BitAt(bits, 8 * i - 2)
        + 64 * BitAt(bits, 8 * i - 1) + 128 * BitAt(bits, 8 * i)]

\* the bits of bytes, each byte lowest bit first
BytesBits(bytes) ==
    [k \in 1..(8 * Len(bytes)) |-> (bytes[((k - 1) \div 8) + 1] \div (2^((k - 1) % 8))) % 2]

\* the canonical Huffman code of symbol sym under the code lengths
HuffmanCode(lengths, sym) ==
    The({ BitsMsb(CodeAfter([m \in 1..15 |->
                               Cardinality({ j \in 1..Len(lengths) : lengths[j] = m })],
                            n - 1, n)
                  + Cardinality({ j \in 1..sym : lengths[j] = n }), n)
        : n \in {lengths[sym + 1]} })

FixedLengths ==
    [i \in 1..288 |-> IF i <= 144 THEN 8 ELSE IF i <= 256 THEN 9 ELSE IF i <= 280 THEN 7 ELSE 8]

\* the code of a dynamic block: lengths of the literal/length symbols 0..264
\* and of the code length symbols 0..18
DynamicLengths == [i \in 1..265 |-> IF i <= 256 THEN 9 ELSE IF i = 257 THEN 2 ELSE 5]

CodeLengthLengths ==
    [i \in 1..19 |-> IF i - 1 \in {9, 16} THEN 2
                      ELSE IF i - 1 \in {1, 2, 5} THEN 3
                      ELSE IF i - 1 \in {0, 17} THEN 4
                      ELSE 0]

\* the codes of the symbols that have one, by symbol + 1
HuffmanCodes(lengths) ==
    [i \in 1..Len(lengths) |-> IF lengths[i] = 0 THEN <<>> ELSE HuffmanCode(lengths, i - 1)]

FixedCodes == HuffmanCodes(FixedLengths)

DynamicCodes == HuffmanCodes(DynamicLengths)

CodeLengthCodes == HuffmanCodes(CodeLengthLengths)

\* the distance symbol of a distance, and the least distance of a symbol
DistBase(d) == IF d < 4 THEN d + 1 ELSE 2^(((d - 2) \div 2) + 1) + 1 + (d % 2) * 2^((d - 2) \div 2)

DistExtra(d) == IF d < 4 THEN 0 ELSE (d - 2) \div 2

DistSymbol(dist) == CHOOSE d \in 0..29 : DistBase(d) <= dist /\ dist < DistBase(d) + 2^DistExtra(d)

\* the length symbol of a match length
LengthSymbol(length) ==
    IF length = 258 THEN 285
    ELSE CHOOSE v \in 257..284 :
            lengthOf(v).length <= length /\ length < lengthOf(v).length + 2^(lengthOf(v).n)

\* the bytes from index i on that equal the byte dist before, at most n
RECURSIVE MatchLen(_, _, _, _)
MatchLen(q, i, dist, n) ==
    IF n = 0 \/ i > Len(q) \/ i <= dist THEN 0
    ELSE IF q[i] # q[i - dist] THEN 0
    ELSE 1 + MatchLen(q, i + 1, dist, n - 1)

\* the literals and matches of q from index i on: lit is a literal when
\* length is 0; a match has at most n bytes
RECURSIVE Tokens(_, _, _, _)
Tokens(q, i, dist, n) ==
    IF i > Len(q) THEN <<>>
    ELSE The({ IF m >= 3
               THEN <<[length |-> m, dist |-> dist, lit |-> 0]>> \o Tokens(q, i + m, dist, n)
               ELSE <<[length |-> 0, dist |-> 0, lit |-> q[i]]>> \o Tokens(q, i + 1, dist, n)
             : m \in {MatchLen(q, i, dist, n)} })

\* the bits of a literal or match: ll the literal/length codes, fixed
\* whether the distance is five bits or the one-bit code of a dynamic block
TokenBits(ll, fixed, t) ==
    IF t.length = 0 THEN ll[t.lit + 1]
    ELSE ll[LengthSymbol(t.length) + 1]
         \o BitsLsb(t.length - lengthOf(LengthSymbol(t.length)).length,
                    lengthOf(LengthSymbol(t.length)).n)
         \o (IF fixed THEN BitsMsb(DistSymbol(t.dist), 5) ELSE <<0>>)
         \o BitsLsb(t.dist - DistBase(DistSymbol(t.dist)), DistExtra(DistSymbol(t.dist)))

RECURSIVE TokensBits(_, _, _)
TokensBits(ll, fixed, ts) ==
    IF ts = <<>> THEN <<>>
    ELSE TokenBits(ll, fixed, Head(ts)) \o TokensBits(ll, fixed, Tail(ts))

\* code lengths as the symbols of the code length code: a length; 16 and two
\* bits for 3..6 more of the last length; 17 and three bits for 3..10 zeros
RECURSIVE LengthsBits(_, _)
LengthsBits(ls, i) ==
    IF i > Len(ls) THEN <<>>
    ELSE IF ls[i] = 0 /\ MatchLen(ls, i + 1, 1, 9) >= 2
    THEN CodeLengthCodes[17 + 1] \o BitsLsb(MatchLen(ls, i + 1, 1, 9) + 1 - 3, 3)
         \o LengthsBits(ls, i + 1 + MatchLen(ls, i + 1, 1, 9))
    ELSE IF ls[i] # 0 /\ MatchLen(ls, i, 1, 6) >= 3
    THEN CodeLengthCodes[16 + 1] \o BitsLsb(MatchLen(ls, i, 1, 6) - 3, 2)
         \o LengthsBits(ls, i + MatchLen(ls, i, 1, 6))
    ELSE CodeLengthCodes[ls[i] + 1] \o LengthsBits(ls, i + 1)

\* the header of a dynamic block whose matches are at distance dist: HLIT,
\* HDIST, HCLEN, the lengths of the code length code, and the code lengths
DynamicHeaderBits(dist) ==
    BitsLsb(265 - 257, 5) \o BitsLsb(DistSymbol(dist), 5) \o BitsLsb(18 - 4, 4)
    \o Concat([i \in 1..18 |-> BitsLsb(CodeLengthLengths[codeOrder[i] + 1], 3)])
    \o LengthsBits(DynamicLengths \o [d \in 1..(DistSymbol(dist) + 1) |->
                                        IF d = DistSymbol(dist) + 1 THEN 1 ELSE 0], 1)

\* the bits of block b: prev the data of the blocks before it, at the number
\* of bits before it, dist the distance of its matches
BlockBits(b, final, prev, at, dist) ==
    <<IF final THEN 1 ELSE 0>>
    \o (IF b.coding = "stored"
        THEN <<0, 0>> \o Zeros((8 - ((at + 3) % 8)) % 8)
             \o BytesBits(<<Len(b.data) % 256, Len(b.data) \div 256,
                            255 - (Len(b.data) % 256), 255 - (Len(b.data) \div 256)>>
                          \o b.data)
        ELSE IF b.coding = "fixed"
        THEN <<1, 0>>
             \o TokensBits(FixedCodes, TRUE, Tokens(prev \o b.data, Len(prev) + 1, dist, 258))
             \o FixedCodes[endBlockMarker + 1]
        ELSE <<0, 1>> \o DynamicHeaderBits(dist)
             \o TokensBits(DynamicCodes, FALSE, Tokens(prev \o b.data, Len(prev) + 1, dist, 10))
             \o DynamicCodes[endBlockMarker + 1])

RECURSIVE DeflateBits(_, _, _, _, _)
DeflateBits(blocks, i, prev, bits, dist) ==
    IF i > Len(blocks) THEN bits
    ELSE DeflateBits(blocks, i + 1, prev \o blocks[i].data,
                     bits \o BlockBits(blocks[i], i = Len(blocks), prev, Len(bits), dist),
                     dist)

\* a deflate stream: the blocks, the last one final
DeflateBlocks(blocks, dist) == PackBits(DeflateBits(blocks, 1, <<>>, <<>>, dist))

\* a zlib stream: header 78 01, the blocks, and the Adler-32 of the data
ZlibBlocks(blocks, dist) ==
    <<120, 1>>
    \o DeflateBlocks(blocks, dist)
    \o AdlerSum(AdlerWrite(AdlerInit, Concat([i \in 1..Len(blocks) |-> blocks[i].data])))

PngStream(chunks) == pngHeader \o Concat(chunks)

TagtEXt == <<116, 69, 88, 116>>

\* the width of the images of the inputs, in pixels, and their greatest
\* height, in rows
Width == 2
MaxHeight == 3

\* the 4*Width bytes of a filtered row, from two fixed byte patterns
PatA == <<200, 100, 50, 255, 60, 200, 250, 1, 0, 128, 127, 255, 3, 77, 254, 129>>
PatB == <<7, 130, 255, 128, 255, 3, 129, 254, 90, 0, 200, 1, 255, 255, 16, 64>>

PixA == [i \in 1..(4 * Width) |-> PatA[((i - 1) % 16) + 1]]
PixB == [i \in 1..(4 * Width) |-> PatB[((i - 1) % 16) + 1]]

\* filtered rows: a filter type byte (nFilter is no filter type) and the bytes
RowAlphabet ==
    { <<ftNone>> \o PixA, <<ftSub>> \o PixA, <<ftUp>> \o PixB,
      <<ftAverage>> \o PixB, <<ftPaeth>> \o PixA, <<nFilter>> \o PixB }

RECURSIVE RowSeqs(_)
RowSeqs(h) ==
    IF h = 0 THEN { <<>> }
    ELSE { <<r>> \o t : r \in RowAlphabet, t \in RowSeqs(h - 1) }

IHDRChunk(w, h) == Chunk(TagIHDR, IHDRPayload(w, h, 8, ctTrueColorAlpha, 0, 0, 0))

IENDChunk == Chunk(TagIEND, <<>>)

tEXtChunk == Chunk(TagtEXt, <<65, 0, 66>>)

IDATChunk(payload) == Chunk(TagIDAT, payload)

\* Family 1: every image of 1..MaxHeight rows over the row alphabet, in one
\* IDAT chunk
ImageStreams ==
    { PngStream(<<IHDRChunk(Width, Len(rows)),
                  IDATChunk(ZlibStored(<<Concat(rows)>>)),
                  IENDChunk>>) :
        rows \in UNION { RowSeqs(h) : h \in 1..MaxHeight } }

\* Family 2: chunk lists, and every list one edit away from them.  The base
\* image has two rows; its zlib stream is cut into IDAT chunks in several ways.
BaseRows == << <<ftSub>> \o PixA, <<ftPaeth>> \o PixB >>

BaseZ == ZlibStored(<<Concat(BaseRows)>>)

BaseHeader == IHDRChunk(Width, 2)

Cut(z, i, j) == SubSeq(z, i, j)

BaseLists ==
    { <<BaseHeader, IDATChunk(BaseZ), IENDChunk>>,
      <<BaseHeader, tEXtChunk, IDATChunk(Cut(BaseZ, 1, 10)),
        IDATChunk(Cut(BaseZ, 11, Len(BaseZ))), IENDChunk>>,
      <<BaseHeader, IDATChunk(<<>>), IDATChunk(Cut(BaseZ, 1, Len(BaseZ) - 2)),
        IDATChunk(<<>>), IDATChunk(Cut(BaseZ, Len(BaseZ) - 1, Len(BaseZ))), IENDChunk>>,
      <<BaseHeader, IDATChunk(ZlibStored(BaseRows)), IENDChunk>>,
      <<BaseHeader, IDATChunk(BaseZ), IDATChunk(<<>>), IENDChunk>> }

ExtraChunks ==
    { BaseHeader, tEXtChunk, IENDChunk, Chunk(TagIEND, <<0>>), IDATChunk(<<>>),
      BadCrcChunk(TagtEXt, <<65, 0, 66>>) }

DeleteAt(l, i) == SubSeq(l, 1, i - 1) \o SubSeq(l, i + 1, Len(l))

InsertAt(l, i, x) == SubSeq(l, 1, i - 1) \o <<x>> \o SubSeq(l, i, Len(l))

SwapAt(l, i, j) == [l EXCEPT ![i] = l[j], ![j] = l[i]]

EditedLists ==
    UNION { { l } \cup { DeleteAt(l, i) : i \in 1..Len(l) }
                  \cup { InsertAt(l, i, x) : i \in 1..(Len(l) + 1), x \in ExtraChunks }
                  \cup { SwapAt(l, i, j) : i \in 1..Len(l), j \in 1..Len(l) } :
            l \in BaseLists }

ChunkStreams == { PngStream(l) : l \in EditedLists }

\* Family 3: the base streams cut short at every length, and with one byte
\* changed (its lowest bit flipped) at every offset
BaseStreams == { PngStream(l) : l \in BaseLists }

FlipAt(b, i) == [b EXCEPT ![i] = IF b[i] % 2 = 0 THEN b[i] + 1 ELSE b[i] - 1]

Damaged(b) ==
    { SubSeq(b, 1, n) : n \in 0..(Len(b) - 1) } \cup { FlipAt(b, i) : i \in 1..Len(b) }

DamagedStreams == UNION { Damaged(b) : b \in BaseStreams }

\* Family 4: header chunks over all combinations of field values, and header
\* chunks of a wrong length, before the base image's data
HeaderStreams ==
    { PngStream(<<Chunk(TagIHDR, IHDRPayload(w, h, depth, ct, cm, fm, il)),
                  IDATChunk(BaseZ), IENDChunk>>) :
        w \in {Width, 0, -1}, h \in {2, 0, -2147483647 - 1}, depth \in {8, 16},
        ct \in {ctTrueColorAlpha, 2}, cm \in {0, 1}, fm \in {0, 1}, il \in {0, 1} }
    \cup
    { PngStream(<<Chunk(TagIHDR, p), IDATChunk(BaseZ), IENDChunk>>) :
        p \in { SubSeq(IHDRPayload(Width, 2, 8, ctTrueColorAlpha, cm, 0, 0), 1, 12) : cm \in {0, 1} }
              \cup { IHDRPayload(Width, 2, 16, ctTrueColorAlpha, 1, 1, 0) \o <<0>> } }

\* Family 5: pixel data that is longer or shorter than the header's rows, a
\* zlib stream ending in an empty block, and zlib headers
DataStreams ==
    { PngStream(<<IHDRChunk(Width, h), IDATChunk(z), IENDChunk>>) :
        h \in {1, 2, 3},
        z \in { BaseZ,
                ZlibStored(<<Concat(BaseRows), <<>>>>),
                ZlibStored(<<BaseRows[1], <<>>, BaseRows[2]>>),
                <<120, 32>> \o SubSeq(BaseZ, 3, Len(BaseZ)),
                <<120, 32, 0, 0, 0, 1>> \o SubSeq(BaseZ, 3, Len(BaseZ)),
                <<8, 29>> \o SubSeq(BaseZ, 3, Len(BaseZ)) } }

\* Family 6: a data chunk longer than the read buffer of the decompressor's
\* reader: the compressed data, padding up to the buffer's size, then bytes
\* that read as the end of a data chunk followed by a terminal chunk
LongFill == BaseZ \o Zeros(BufioSize - Len(BaseZ))

LongPayload == LongFill \o CrcWrite(CrcWrite(CrcReset, TagIDAT), LongFill) \o IENDChunk

LongStreams ==
    { PngStream(<<BaseHeader, IDATChunk(LongPayload)>> \o t) :
        t \in { <<>>, <<tEXtChunk>>, <<IENDChunk>>, <<Chunk(TagIEND, <<0>>)>> } }
    \cup { PngStream(<<BaseHeader, BadCrcChunk(TagIDAT, LongPayload), IENDChunk>>) }

\* Family 7: pixel data in Huffman-coded blocks.  The rows of an image are
\* coded in one block or a block each; equal rows make a match at the
\* distance of a row, within a block or into the block before.  Two of the
\* streams are also cut short at every length and changed at every offset.
RowLen == 1 + 4 * Width

RepeatRows == << <<ftSub>> \o PixA, <<ftSub>> \o PixA, <<ftUp>> \o PixB >>

Blocks(codings, rows) == [i \in 1..Len(rows) |-> [coding |-> codings[i], data |-> rows[i]]]

HuffmanZ ==
    { ZlibBlocks(<<[coding |-> c, data |-> Concat(rows)]>>, RowLen) :
        c \in {"fixed", "dynamic"}, rows \in {BaseRows, RepeatRows} }
    \cup
    { ZlibBlocks(Blocks(cs, RepeatRows), RowLen) :
        cs \in { <<"fixed", "dynamic", "stored">>, <<"stored", "fixed", "dynamic">>,
                 <<"dynamic", "stored", "fixed">> } }

DamagedZ ==
    { ZlibBlocks(<<[coding |-> "fixed", data |-> Concat(RepeatRows)]>>, RowLen),
      ZlibBlocks(Blocks(<<"stored", "dynamic", "fixed">>, RepeatRows), RowLen) }

HuffmanStreams ==
    { PngStream(<<IHDRChunk(Width, h), IDATChunk(z), IENDChunk>>) :
        h \in {2, 3}, z \in HuffmanZ }
    \cup
    { PngStream(<<IHDRChunk(Width, 3), IDATChunk(Cut(z, 1, 7)), IDATChunk(Cut(z, 8, Len(z))),
                  IENDChunk>>) : z \in HuffmanZ }
    \cup
    UNION { Damaged(PngStream(<<IHDRChunk(Width, 3), IDATChunk(z), IENDChunk>>)) :
              z \in DamagedZ }

\* Family 8: a data chunk whose length word has its highest bit set
LongLengthChunk(tag, payload) ==
    The({ [c EXCEPT ![1] = c[1] + 128] : c \in {Chunk(tag, payload)} })

LongLengthStreams ==
    { PngStream(<<BaseHeader, LongLengthChunk(TagIDAT, BaseZ)>> \o t) :
        t \in { <<>>, <<IENDChunk>>, <<IDATChunk(<<>>), IENDChunk>> } }
    \cup
    { PngStream(<<BaseHeader, IDATChunk(Cut(BaseZ, 1, 10)),
                  LongLengthChunk(TagIDAT, Cut(BaseZ, 11, Len(BaseZ))), IENDChunk>>) }

InputStreams ==
    ImageStreams \cup ChunkStreams \cup DamagedStreams \cup HeaderStreams \cup DataStreams
    \cup LongStreams \cup HuffmanStreams \cup LongLengthStreams

(***************************************************************************)
(* The encoder.  writer.go is not among the sources; Encode is written     *)
(* from the specification (4.4, 4.5, 4.7): the signature, the header       *)
(* chunk, each row as a filter type byte and the filtered bytes pushed     *)
(* into the compression transform, its output cut into data chunks of at   *)
(* most a fixed payload size, and a zero-length terminal chunk.  The       *)
(* compression transform is compress/zlib; what it writes is modelled as   *)
(* the zlib header of the level, one deflate block and the Adler-32 of the *)
(* data.  The coding of the block is the compressor's choice: stored, or   *)
(* Huffman-coded with the fixed or with a dynamic code, a repetition at    *)
(* the distance of a row written as a match.  The filter of each row is    *)
(* the encoder's choice: any of the five.                                  *)
(***************************************************************************)
Levels == {"BestSpeed", "DefaultCompression", "BestCompression"}

\* the levels and codings tried together, as <<level, coding>>: a stored
\* block at every level, a Huffman-coded one at every level
Compressions ==
    (Levels \X {"stored"})
    \cup {<<"BestSpeed", "fixed">>, <<"DefaultCompression", "dynamic">>,
          <<"BestCompression", "fixed">>}

\* the two bytes compress/zlib writes first: CMF 0x78 and the FLG of the level
ZlibHeaderOf(level) ==
    IF level = "BestSpeed" THEN <<120, 1>>
    ELSE IF level = "DefaultCompression" THEN <<120, 156>>
    ELSE <<120, 218>>

ZlibWrite(level, coding, data, dist) ==
    ZlibHeaderOf(level)
    \o DeflateBlocks(<<[coding |-> coding, data |-> data]>>, dist)
    \o AdlerSum(AdlerWrite(AdlerInit, data))

\* the predictor of filter type ft from a (left), b (above), c (above left)
Predictor(ft, a, b, c) ==
    IF ft = ftNone THEN 0
    ELSE IF ft = ftSub THEN a
    ELSE IF ft = ftUp THEN b
    ELSE IF ft = ftAverage THEN (a + b) \div 2
    ELSE IF abs(a + b - c - a) <= abs(a + b - c - b) /\ abs(a + b - c - a) <= abs(a + b - c - c)
    THEN a
    ELSE IF abs(a + b - c - b) <= abs(a + b - c - c) THEN b
    ELSE c

\* filter application: each original byte minus its predictor from the
\* original bytes of the row and of the row above, modulo 256
FilterRow(ft, row, prev, bpp) ==
    [i \in 1..Len(row) |->
        (row[i] + 256 - Predictor(ft, IF i > bpp THEN row[i - bpp] ELSE 0,
                                      prev[i],
                                      IF i > bpp THEN prev[i - bpp] ELSE 0)) % 256]

\* the input of the compression transform: for each row its filter type
\* fts[k] and its filtered bytes
FilteredRows(image, fts) ==
    Concat([k \in 1..Len(image) |->
              <<fts[k]>> \o FilterRow(fts[k], image[k],
                                      IF k = 1 THEN Zeros(Len(image[1])) ELSE image[k - 1],
                                      4)])

\* z cut into pieces of at most n bytes
RECURSIVE Segments(_, _)
Segments(z, n) ==
    IF Len(z) <= n THEN <<z>>
    ELSE <<SubSeq(z, 1, n)>> \o Segments(SubSeq(z, n + 1, Len(z)), n)

\* Encode of an image (its rows of 4 bytes per pixel) at a level, with the
\* filter types fts chosen for the rows, the coding chosen for the block and
\* data chunks of at most seg bytes
Encode(image, level, coding, fts, seg) ==
    The({ PngStream(<<IHDRChunk(Len(image[1]) \div 4, Len(image))>>
                    \o [i \in 1..Len(pieces) |-> IDATChunk(pieces[i])]
                    \o <<IENDChunk>>)
        : pieces \in {Segments(ZlibWrite(level, coding, FilteredRows(image, fts),
                                         1 + Len(image[1])), seg)} })

\* the images given to Encode: one to EncHeight rows of Width pixels
EncHeight == 2

RECURSIVE ImagesOf(_)
ImagesOf(h) ==
    IF h = 0 THEN { <<>> }
    ELSE { <<r>> \o t : r \in {PixA, PixB}, t \in ImagesOf(h - 1) }

Images == UNION { ImagesOf(h) : h \in 1..EncHeight }

\* the greatest payloads of a data chunk tried: a few bytes, and 32 KiB
SegSizes == {8, 32768}

NoImage == <<>>

(***************************************************************************)
(* The stream as the container format describes it, and a whole-image      *)
(* reference decoder for it.  None of this is the decoder above: it reads  *)
(* the stream as a whole, chunk by chunk, and is what the properties       *)
(* compare the decoder with.                                               *)
(***************************************************************************)
\* the chunks laid out in b from offset pos on: for each its offset, tag,
\* payload and whether the stored CRC is the CRC-32 of tag and payload; end is
\* where the layout stops (Len(b) when the chunks fill the stream exactly)
RECURSIVE RefChunks(_, _, _)
RefChunks(b, pos, acc) ==
    IF pos + 12 > Len(b) THEN [chunks |-> acc, end |-> pos]
    ELSE
    The({ IF n < 0 \/ pos + 12 + n > Len(b) THEN [chunks |-> acc, end |-> pos]
          ELSE The({ RefChunks(b, pos + 12 + n, next)
                   : next \in {Append(acc,
                        [at |-> pos,
                         tag |-> SubSeq(b, pos + 5, pos + 8),
                         payload |-> SubSeq(b, pos + 9, pos + 8 + n),
                         crcOk |-> SubSeq(b, pos + 9 + n, pos + 12 + n)
                                   = CrcWrite(CrcReset, SubSeq(b, pos + 5, pos + 8 + n))])} })
        : n \in {BigEndianUint32(SubSeq(b, pos + 1, pos + 4))} })

Tags(chunks) == [i \in 1..Len(chunks) |-> chunks[i].tag]

\* the indices of the chunks with a tag
Where(chunks, tag) == { i \in 1..Len(chunks) : chunks[i].tag = tag }

\* an ancillary chunk type: bit 5 of the first byte of the tag is set
IsAncillary(tag) == (tag[1] \div 32) % 2 = 1

SetMin(S) == CHOOSE x \in S : \A y \in S : x <= y

SetMax(S) == CHOOSE x \in S : \A y \in S : x >= y

\* the seven fields of a 13-byte header payload
HeaderFields(p) ==
    [width |-> BigEndianUint32(SubSeq(p, 1, 4)),
     height |-> BigEndianUint32(SubSeq(p, 5, 8)),
     depth |-> p[9], colorType |-> p[10], compression |-> p[11],
     filter |-> p[12], interlace |-> p[13]]

\* the supported profile: 8-bit truecolor with alpha, not interlaced
SupportedHeader(p) ==
    /\ Len(p) = 13
    /\ HeaderFields(p).width > 0
    /\ HeaderFields(p).height > 0
    /\ HeaderFields(p).depth = 8
    /\ HeaderFields(p).colorType = 6
    /\ HeaderFields(p).compression = 0
    /\ HeaderFields(p).filter = 0
    /\ HeaderFields(p).interlace = 0

\* the required order: one header chunk, one or more consecutive data chunks,
\* one zero-length terminal chunk at the end, other chunk types only before
\* the first data chunk
RequiredShape(chunks) ==
    /\ Cardinality(Where(chunks, TagIHDR)) = 1
    /\ Cardinality(Where(chunks, TagIEND)) = 1
    /\ Where(chunks, TagIDAT) # {}
    /\ chunks[Len(chunks)].tag = TagIEND
    /\ chunks[Len(chunks)].payload = <<>>
    /\ Where(chunks, TagIDAT)
         = SetMin(Where(chunks, TagIDAT))..(Len(chunks) - 1)
    /\ SetMin(Where(chunks, TagIHDR)) < SetMin(Where(chunks, TagIDAT))

\* the order the format allows a reference decoder to accept: the header
\* chunk first, the data chunks consecutive, the zero-length terminal chunk
\* last, ancillary chunks anywhere between header and terminal chunk except
\* between data chunks
ReferenceShape(chunks) ==
    /\ Len(chunks) >= 3
    /\ Where(chunks, TagIHDR) = {1}
    /\ Where(chunks, TagIEND) = {Len(chunks)}
    /\ chunks[Len(chunks)].payload = <<>>
    /\ Where(chunks, TagIDAT) # {}
    /\ Where(chunks, TagIDAT)
         = SetMin(Where(chunks, TagIDAT))..SetMax(Where(chunks, TagIDAT))
    /\ \A i \in 1..Len(chunks) :
          chunks[i].tag \in {TagIHDR, TagIDAT, TagIEND} \/ IsAncillary(chunks[i].tag)

\* the payloads of the data chunks, concatenated
RECURSIVE RefData(_, _)
RefData(chunks, i) ==
    IF i > Len(chunks) THEN <<>>
    ELSE (IF chunks[i].tag = TagIDAT THEN chunks[i].payload ELSE <<>>)
         \o RefData(chunks, i + 1)

\* the bit of z at bit offset p, the lowest bit of a byte first; bits past the
\* end read as 0, and Within tells whether n bits from p on are in z
RefBit(z, p) == IF p >= 8 * Len(z) THEN 0 ELSE (z[(p \div 8) + 1] \div (2^(p % 8))) % 2

RECURSIVE RefBits(_, _, _)
RefBits(z, p, n) == IF n = 0 THEN 0 ELSE RefBit(z, p) + 2 * RefBits(z, p + 1, n - 1)

Within(z, p, n) == p + n <= 8 * Len(z)

\* the symbol of the code h at bit offset p, and the offset after it
RefSym(z, p, h) ==
    The({ [ok |-> ch.n > 0 /\ Within(z, p, ch.n), sym |-> ch.sym, p |-> p + ch.n]
        : ch \in {chunkOf(h, RefBits(z, p, 15), 1, 0, 0, 0)} })

\* A position in a block is [st, p, data]: p the bit offset, data the bytes so
\* far, st "more" inside the block, "end" after it, "bad" when it is malformed.
RefBad(r) == [r EXCEPT !.st = "bad"]

\* a match from its length symbol v at r: the length, the distance symbol (of
\* the code hd, or five bits when there is none), and the bytes copied
RefMatch(z, r, hd, v) ==
    The({ The({ IF ~Within(z, r.p, lo.n) \/ ~ds.ok \/ ds.sym >= maxNumDist THEN RefBad(r)
                ELSE
                The({ The({ IF ~Within(z, ds.p, k) \/ dist > Len(r.data) THEN RefBad(r)
                            ELSE [st |-> "more", p |-> ds.p + k,
                                  data |-> r.data
                                           \o [i \in 1..(lo.length + RefBits(z, r.p, lo.n)) |->
                                                 r.data[Len(r.data) - dist + ((i - 1) % dist) + 1]]]
                          : dist \in {IF ds.sym < 4 THEN ds.sym + 1
                                      ELSE 2^(k + 1) + 1 + (ds.sym % 2) * 2^k
                                           + RefBits(z, ds.p, k)} })
                    : k \in {IF ds.sym < 4 THEN 0 ELSE (ds.sym - 2) \div 2} })
              : ds \in {IF hd = <<>>
                        THEN [ok |-> Within(z, r.p + lo.n, 5),
                              sym |-> Reverse5(RefBits(z, r.p + lo.n, 5)),
                              p |-> r.p + lo.n + 5]
                        ELSE RefSym(z, r.p + lo.n, hd[1])} })
        : lo \in {lengthOf(v)} })

\* one symbol of a Huffman-coded block: a literal, the end of the block, or a
\* match
RefSymbol(z, r, hl, hd) ==
    The({ IF ~ls.ok \/ ls.sym >= maxNumLit THEN RefBad(r)
          ELSE IF ls.sym < 256 THEN [st |-> "more", p |-> ls.p, data |-> Append(r.data, ls.sym)]
          ELSE IF ls.sym = endBlockMarker THEN [st |-> "end", p |-> ls.p, data |-> r.data]
          ELSE RefMatch(z, [r EXCEPT !.p = ls.p], hd, ls.sym)
        : ls \in {RefSym(z, r.p, hl)} })

\* the symbols of a block up to its end, at most 2^k of them a call
RECURSIVE RefSymbols(_, _, _, _, _)
RefSymbols(z, r, hl, hd, k) ==
    IF r.st # "more" THEN r
    ELSE IF k = 0 THEN RefSymbol(z, r, hl, hd)
    ELSE The({ RefSymbols(z, r1, hl, hd, k - 1) : r1 \in {RefSymbols(z, r, hl, hd, k - 1)} })

\* one entry of the code lengths of a dynamic block, read with the code
\* length code h: c is [ok, p, bits], n the number of lengths
RefLength(z, c, h, n) ==
    The({ IF ~cs.ok THEN [c EXCEPT !.ok = FALSE]
          ELSE IF cs.sym < 16 THEN [ok |-> TRUE, p |-> cs.p, bits |-> Append(c.bits, cs.sym)]
          ELSE IF cs.sym = 16 /\ c.bits = <<>> THEN [c EXCEPT !.ok = FALSE]
          ELSE
          The({ IF ~Within(z, cs.p, rp.nb)
                   \/ Len(c.bits) + rp.rep + RefBits(z, cs.p, rp.nb) > n
                THEN [c EXCEPT !.ok = FALSE]
                ELSE [ok |-> TRUE, p |-> cs.p + rp.nb,
                      bits |-> c.bits \o [j \in 1..(rp.rep + RefBits(z, cs.p, rp.nb)) |-> rp.b]]
              : rp \in {IF cs.sym = 16 THEN [rep |-> 3, nb |-> 2, b |-> c.bits[Len(c.bits)]]
                        ELSE IF cs.sym = 17 THEN [rep |-> 3, nb |-> 3, b |-> 0]
                        ELSE [rep |-> 11, nb |-> 7, b |-> 0]} })
        : cs \in {RefSym(z, c.p, h)} })

RECURSIVE RefLengths(_, _, _, _, _)
RefLengths(z, c, h, n, k) ==
    IF ~c.ok \/ Len(c.bits) >= n THEN c
    ELSE IF k = 0 THEN RefLength(z, c, h, n)
    ELSE The({ RefLengths(z, c1, h, n, k - 1) : c1 \in {RefLengths(z, c, h, n, k - 1)} })

\* the two codes of a dynamic block whose counts HLIT, HDIST, HCLEN are at p
RefCodes(z, p) ==
    The({ IF ~Within(z, p, 14 + 3 * nclen) \/ nlit > maxNumLit \/ ndist > maxNumDist
          THEN [ok |-> FALSE, p |-> p, hl |-> emptyDecoder, hd |-> emptyDecoder]
          ELSE
          The({ The({ The({ [ok |-> h1.ok /\ c.ok /\ hl.ok /\ hd.ok, p |-> c.p,
                             hl |-> hl.h, hd |-> hd.h]
                          : hl \in {huffmanDecoderInit(SubSeq(c.bits, 1, min(nlit, Len(c.bits))))},
                            hd \in {huffmanDecoderInit(SubSeq(c.bits, min(nlit, Len(c.bits)) + 1,
                                                              Len(c.bits)))} })
                    : c \in {IF h1.ok
                             THEN RefLengths(z, [ok |-> TRUE, p |-> p + 14 + 3 * nclen, bits |-> <<>>],
                                             h1.h, nlit + ndist, 9)
                             ELSE [ok |-> FALSE, p |-> p, bits |-> <<>>]} })
              : h1 \in {huffmanDecoderInit(codebitsOf(
                           [i \in 1..nclen |-> RefBits(z, p + 14 + 3 * (i - 1), 3)]))} })
        : nlit \in {RefBits(z, p, 5) + 257},
          ndist \in {RefBits(z, p + 5, 5) + 1},
          nclen \in {RefBits(z, p + 10, 4) + 4} })

\* one block at bit offset r.p: a stored block starts at the next byte
\* boundary after its header; done tells whether the block was the final one
RefBlock(z, r) ==
    IF ~Within(z, r.p, 3) THEN [r |-> RefBad(r), final |-> FALSE]
    ELSE
    The({ [r |-> IF typ = 0
                 THEN The({ IF ~Within(z, 8 * at, 32)
                               \/ z[at + 1] + z[at + 3] # 255 \/ z[at + 2] + z[at + 4] # 255
                               \/ ~Within(z, 8 * (at + 4), 8 * (z[at + 1] + 256 * z[at + 2]))
                            THEN RefBad(r)
                            ELSE [st |-> "end", p |-> 8 * (at + 4 + z[at + 1] + 256 * z[at + 2]),
                                  data |-> r.data
                                           \o SubSeq(z, at + 5, at + 4 + z[at + 1] + 256 * z[at + 2])]
                          : at \in {(r.p + 3 + 7) \div 8} })
                 ELSE IF typ = 1
                 THEN RefSymbols(z, [r EXCEPT !.p = r.p + 3], fixedHuffmanDecoder, <<>>, 16)
                 ELSE IF typ = 2
                 THEN The({ IF ~cd.ok THEN RefBad(r)
                            ELSE RefSymbols(z, [r EXCEPT !.p = cd.p], cd.hl, <<cd.hd>>, 16)
                          : cd \in {RefCodes(z, r.p + 3)} })
                 ELSE RefBad(r),
           final |-> RefBit(z, r.p) = 1]
        : typ \in {RefBits(z, r.p + 1, 2)} })

\* the deflate blocks of z from bit offset r.p on, up to the final block: ok
\* when they are well formed, next the index of the byte after them
RECURSIVE RefBlocks(_, _)
RefBlocks(z, r) ==
    The({ IF bl.r.st = "bad" THEN [ok |-> FALSE, data |-> bl.r.data, next |-> 1]
          ELSE IF bl.final
          THEN [ok |-> TRUE, data |-> bl.r.data, next |-> ((bl.r.p + 7) \div 8) + 1]
          ELSE RefBlocks(z, [bl.r EXCEPT !.st = "more"])
        : bl \in {RefBlock(z, r)} })

\* a zlib stream inflated: the 2-byte header without a preset dictionary, the
\* blocks, and the Adler-32 of the data as the last four bytes
RefInflate(z) ==
    IF Len(z) < 2 \/ z[1] % 16 # 8 \/ z[1] \div 16 > 7
       \/ (z[1] * 256 + z[2]) % 31 # 0 \/ (z[2] \div 32) % 2 = 1
    THEN [ok |-> FALSE, data |-> <<>>]
    ELSE The({ [ok |-> /\ bl.ok
                       /\ bl.next + 3 = Len(z)
                       /\ SubSeq(z, bl.next, Len(z)) = AdlerSum(AdlerWrite(AdlerInit, bl.data)),
                data |-> bl.data]
             : bl \in {RefBlocks(z, [st |-> "more", p |-> 16, data |-> <<>>])} })

\* the Paeth predictor of the format
RefPaeth(a, b, c) ==
    IF abs(a + b - c - a) <= abs(a + b - c - b) /\ abs(a + b - c - a) <= abs(a + b - c - c)
    THEN a
    ELSE IF abs(a + b - c - b) <= abs(a + b - c - c) THEN b
    ELSE c

\* one reconstructed byte: the filtered byte plus the predictor of filter
\* type ft from a (left), b (above) and c (above left)
RefRecon(ft, x, a, b, c) ==
    (x + (CASE ft = 0 -> 0
            [] ft = 1 -> a
            [] ft = 2 -> b
            [] ft = 3 -> (a + b) \div 2
            [] ft = 4 -> RefPaeth(a, b, c))) % 256

\* a scanline reconstructed left to right: filt the filtered bytes, prior the
\* reconstructed scanline above, acc the bytes reconstructed so far
RECURSIVE RefScanline(_, _, _, _)
RefScanline(ft, filt, prior, acc) ==
    IF Len(acc) = Len(filt) THEN acc
    ELSE The({ RefScanline(ft, filt, prior, next)
             : next \in {Append(acc,
                  RefRecon(ft, filt[Len(acc) + 1],
                           IF Len(acc) >= 4 THEN acc[Len(acc) - 3] ELSE 0,
                           prior[Len(acc) + 1],
                           IF Len(acc) >= 4 THEN prior[Len(acc) - 3] ELSE 0))} })

\* the image: the scanlines of data (each a filter type byte and 4*w bytes),
\* reconstructed top to bottom; ok unless a filter type is none of 0..4
RECURSIVE RefImage(_, _, _, _)
RefImage(data, w, prior, acc) ==
    IF data = <<>> THEN [ok |-> TRUE, pixels |-> acc]
    ELSE IF data[1] > 4 THEN [ok |-> FALSE, pixels |-> acc]
    ELSE The({ RefImage(SubSeq(data, 2 + 4 * w, Len(data)), w, line, Append(acc, line))
             : line \in {RefScanline(data[1], SubSeq(data, 2, 1 + 4 * w), prior, <<>>)} })

\* what the reference decoder makes of the chunks, whose first is a header
\* chunk of the supported profile
RefDecode(chunks) ==
    The({ The({ [valid |-> inf.ok /\ Len(inf.data) = hd.height * (1 + 4 * hd.width) /\ img.ok,
                 width |-> hd.width, height |-> hd.height, pixels |-> img.pixels]
              : img \in {IF inf.ok /\ Len(inf.data) = hd.height * (1 + 4 * hd.width)
                         THEN RefImage(inf.data, hd.width, Zeros(4 * hd.width), <<>>)
                         ELSE [ok |-> FALSE, pixels |-> <<>>]} })
        : hd \in {HeaderFields(chunks[1].payload)},
          inf \in {RefInflate(RefData(chunks, 1))} })

\* what the stream is, as a whole:
\*   chunks, whole   its chunks, and whether they fill it exactly after the
\*                   signature
\*   shaped          ReferenceShape with a header of the supported profile,
\*                   and pixel data the reference decoder accepts
\*   valid           shaped, and every CRC is right
\*   width, height, pixels   the reference decoder's image when shaped
Reference(b) ==
    IF Len(b) < 8 \/ SubSeq(b, 1, 8) # pngHeader
    THEN [chunks |-> <<>>, whole |-> FALSE, shaped |-> FALSE, valid |-> FALSE,
          width |-> 0, height |-> 0, pixels |-> <<>>]
    ELSE
    The({ IF rc.end = Len(b) /\ ReferenceShape(rc.chunks)
             /\ SupportedHeader(rc.chunks[1].payload)
          THEN The({ [chunks |-> rc.chunks, whole |-> TRUE, shaped |-> rd.valid,
                      valid |-> rd.valid /\ \A i \in 1..Len(rc.chunks) : rc.chunks[i].crcOk,
                      width |-> rd.width, height |-> rd.height, pixels |-> rd.pixels]
                   : rd \in {RefDecode(rc.chunks)} })
          ELSE [chunks |-> rc.chunks, whole |-> rc.end = Len(b), shaped |-> FALSE,
                valid |-> FALSE, width |-> 0, height |-> 0, pixels |-> <<>>]
        : rc \in {RefChunks(b, 8, <<>>)} })

NoReference ==
    [chunks |-> <<>>, whole |-> FALSE, shaped |-> FALSE, valid |-> FALSE,
     width |-> 0, height |-> 0, pixels |-> <<>>]

(***************************************************************************)
(* The session.                                                            *)
(*   phase  "start": NewDecoder not yet called; "open": it returned a      *)
(*          session; "failed": it returned an error and no session.        *)
(*   s      the decoder and its decompressor (what NewDecoder built).      *)
(*   dec    the fields of struct Decoder: the row buffers and y.           *)
(*   op     the last call: its name, the error it returned, the buffer     *)
(*          its returned slice aliases (0: nil), and s, dec and errs as    *)
(*          they were when it was made.                                    *)
(*   rows   for DecodeRow's successes in order, the buffer returned and    *)
(*          the bytes of the slice at the return.                          *)
(*   errs   what DecodeRow and Close returned so far, as a set of          *)
(*          [name, err].                                                   *)
(*   ref    what the stream is as a whole (Reference), known from the      *)
(*          call of NewDecoder on.                                         *)
(*   img    the image the stream was encoded from, when Encode wrote the   *)
(*          stream (phase "image": Encode not yet called); else NoImage.   *)
(*   out    the bytes that direct calls of decoder.Read have delivered.    *)
(***************************************************************************)
VARIABLES phase, s, dec, op, rows, errs, ref, img, out

vars == <<stream, phase, s, dec, op, rows, errs, ref, img, out>>

NoDecoderRows == [bytesPerPixel |-> 0, bufs |-> <<<<>>, <<>>>>, cr |-> 1, pr |-> 2, y |-> 0]

NoSession == [d |-> NewDecoderStruct, z |-> NewZlibState]

NoOp == [name |-> "none", err |-> Nil, ret |-> 0,
         before |-> [s |-> NoSession, dec |-> NoDecoderRows, errs |-> {}]]

Init ==
    /\ stream \in InputStreams
    /\ phase = "start"
    /\ s = NoSession
    /\ dec = NoDecoderRows
    /\ op = NoOp
    /\ rows = <<>>
    /\ errs = {}
    /\ ref = NoReference
    /\ out = <<>>
    /\ img = NoImage

CallNewDecoder ==
    /\ phase = "start"
    /\ \E nd \in {NewDecoder} :
           /\ phase' = IF nd.err = Nil THEN "open" ELSE "failed"
           /\ s' = nd.s
           /\ dec' = IF nd.err = Nil THEN NewDecoderRows(nd.s.d.width) ELSE NoDecoderRows
           /\ op' = [name |-> "NewDecoder", err |-> nd.err, ret |-> 0,
                     before |-> [s |-> s, dec |-> dec, errs |-> errs]]
    /\ ref' = Reference(stream)
    /\ UNCHANGED <<stream, rows, errs, img, out>>

CallDecodeRow ==
    /\ phase = "open"
    /\ \E dr \in {DecodeRow(s, dec)} :
           /\ s' = dr.s
           /\ dec' = dr.dec
           /\ op' = [name |-> "DecodeRow", err |-> dr.err, ret |-> dr.ret,
                     before |-> [s |-> s, dec |-> dec, errs |-> errs]]
           /\ rows' = IF dr.err = Nil
                      THEN Append(rows, [buf |-> dr.ret, bytes |-> Tail1(dr.dec.bufs[dr.ret])])
                      ELSE rows
           /\ errs' = errs \cup {[name |-> "DecodeRow", err |-> dr.err]}
    /\ UNCHANGED <<stream, phase, ref, img, out>>

CallClose ==
    /\ phase = "open"
    /\ \E cl \in {Close(s)} :
           /\ s' = cl.s
           /\ op' = [name |-> "Close", err |-> cl.err, ret |-> 0,
                     before |-> [s |-> s, dec |-> dec, errs |-> errs]]
           /\ errs' = errs \cup {[name |-> "Close", err |-> cl.err]}
    /\ UNCHANGED <<stream, phase, dec, rows, ref, img, out>>

Next == CallNewDecoder \/ CallDecodeRow \/ CallClose

Spec == Init /\ [][Next]_vars

\* NewDecoder in its steps, for what holds between the chunks it dispatches:
\* the signature check, one turn of the chunk loop at a time, and what
\* follows the loop (zlib.NewReader and the row buffers); then the session
\* calls as above.
CallCheckHeader ==
    /\ phase = "start"
    /\ \E ch \in {checkHeader(NewDecoderStruct)} :
           /\ phase' = IF ch.err = Nil THEN "chunks" ELSE "failed"
           /\ s' = [d |-> ch.d, z |-> NewZlibState]
           /\ op' = [name |-> "checkHeader", err |-> noEOF(ch.err), ret |-> 0,
                     before |-> [s |-> s, dec |-> dec, errs |-> errs]]
    /\ UNCHANGED <<stream, dec, rows, errs, ref, img, out>>

CallChunkStep ==
    /\ phase = "chunks"
    /\ \E step \in {ChunkStep(s.d)} :
           /\ phase' = IF step.next THEN "chunks"
                        ELSE IF step.err = Nil THEN "data" ELSE "failed"
           /\ s' = [s EXCEPT !.d = step.d]
           /\ op' = [name |-> "chunk", err |-> step.err, ret |-> 0,
                     before |-> [s |-> s, dec |-> dec, errs |-> errs]]
    /\ UNCHANGED <<stream, dec, rows, errs, ref, img, out>>

CallZlibNewReader ==
    /\ phase = "data"
    /\ \E zr \in {ZlibNewReader(s.d)} :
           /\ phase' = IF zr.err = Nil THEN "open" ELSE "failed"
           /\ s' = zr.s
           /\ dec' = IF zr.err = Nil THEN NewDecoderRows(zr.s.d.width) ELSE NoDecoderRows
           /\ op' = [name |-> "zlib.NewReader", err |-> zr.err, ret |-> 0,
                     before |-> [s |-> s, dec |-> dec, errs |-> errs]]
    /\ UNCHANGED <<stream, rows, errs, ref, img, out>>

NextSteps == CallCheckHeader \/ CallChunkStep \/ CallZlibNewReader \/ CallDecodeRow \/ CallClose

SpecSteps == Init /\ [][NextSteps]_vars

\* The reconstruction of DecodeRow alone, over byte values: the session has
\* returned one row (the previous-row buffer) and io.ReadFull has filled the
\* current-row buffer with a filter type byte and the filtered bytes; the
\* first byte of the first pixel and of the second pixel of both rows range
\* over FilterBytes, the filter type over 0..6.
FilterBytes == {0, 1, 2, 127, 128, 129, 254, 255}

FilterRows(pat) ==
    { [i \in 1..(4 * Width) |->
          IF i = 1 THEN x ELSE IF i = 5 THEN y ELSE pat[((i - 1) % 16) + 1]] :
      x \in FilterBytes, y \in FilterBytes }

InitFilter ==
    /\ dec \in { [bytesPerPixel |-> 4, bufs |-> <<<<ft>> \o c, <<ftNone>> \o p>>,
                   cr |-> 1, pr |-> 2, y |-> 1] :
                  ft \in 0..(nFilter + 1), c \in FilterRows(PatA), p \in FilterRows(PatB) }
    /\ rows = <<[buf |-> 2, bytes |-> Tail1(dec.bufs[2])]>>
    /\ stream = <<>>
    /\ phase = "row"
    /\ s = [d |-> [NewDecoderStruct EXCEPT !.width = Width, !.height = 2, !.depth = 8,
                                          !.cb = cbTCA8, !.stage = dsSeenIDAT],
            z |-> NewZlibState]
    /\ op = NoOp
    /\ errs = {}
    /\ ref = NoReference
    /\ img = NoImage
    /\ out = <<>>

\* DecodeRow from "Apply the filter" on
CallFilter ==
    /\ phase = "row"
    /\ \E fl \in {ApplyFilter(dec.bufs[dec.cr][1], Tail1(dec.bufs[dec.cr]),
                               Tail1(dec.bufs[dec.pr]), dec.bytesPerPixel)} :
           /\ dec' = IF fl.ok THEN FinishRow(dec, <<dec.bufs[dec.cr][1]>> \o fl.cdat) ELSE dec
           /\ op' = [name |-> "filter",
                     err |-> IF fl.ok THEN Nil ELSE FormatError("bad filter type"),
                     ret |-> IF fl.ok THEN dec.cr ELSE 0,
                     before |-> [s |-> s, dec |-> dec, errs |-> errs]]
           /\ rows' = IF fl.ok THEN Append(rows, [buf |-> dec.cr, bytes |-> fl.cdat]) ELSE rows
    /\ phase' = "filtered"
    /\ UNCHANGED <<stream, s, errs, ref, img, out>>

NextFilter == CallFilter

SpecFilter == InitFilter /\ [][NextFilter]_vars

\* decoder.Read called directly, with buffers of any size, on the decoder that
\* the chunk loop leaves: the streams are a header chunk, one to three data
\* chunks (empty ones and one with a wrong CRC among them; the payloads need
\* not be compressed data), and what follows them; some are cut short, and
\* some have a data chunk whose length word has its highest bit set.
DataChunkAlphabet ==
    { IDATChunk(<<>>), IDATChunk(<<1, 2, 3>>), IDATChunk(<<4, 5, 6, 7, 8>>),
      BadCrcChunk(TagIDAT, <<9, 10>>) }

RECURSIVE DataChunkLists(_)
DataChunkLists(n) ==
    IF n = 0 THEN { <<>> }
    ELSE { <<c>> \o t : c \in DataChunkAlphabet, t \in DataChunkLists(n - 1) }

MaxDataChunks == 3

ReadTails == { <<>>, <<IENDChunk>>, <<tEXtChunk>>, <<tEXtChunk, IDATChunk(<<11>>)>> }

ReadStreams ==
    { PngStream(<<BaseHeader>> \o l \o t) :
        l \in UNION { DataChunkLists(n) : n \in 1..MaxDataChunks }, t \in ReadTails }
    \cup
    { SubSeq(b, 1, n) :
        b \in { PngStream(<<BaseHeader, IDATChunk(<<1, 2, 3>>), IDATChunk(<<4, 5, 6, 7, 8>>)>>) },
        n \in (Len(pngHeader) + Len(BaseHeader) + 8)..(Len(pngHeader) + Len(BaseHeader) + 31) }
    \cup
    { PngStream(<<BaseHeader>> \o l \o <<LongLengthChunk(TagIDAT, <<4, 5, 6, 7, 8>>)>> \o t) :
        l \in { <<>>, <<IDATChunk(<<1, 2, 3>>)>> }, t \in ReadTails }

\* the sizes of the buffers given to Read
ReadSizes == {0, 1, 2, 4096}

InitRead ==
    /\ stream \in ReadStreams
    /\ phase = "start"
    /\ s = NoSession
    /\ dec = NoDecoderRows
    /\ op = NoOp
    /\ rows = <<>>
    /\ errs = {}
    /\ ref = NoReference
    /\ img = NoImage
    /\ out = <<>>

\* d.Read(p) with len(p) = n
CallRead ==
    /\ phase = "data"
    /\ \E n \in ReadSizes :
         \E rd \in {Read(s.d, n)} :
           /\ s' = [s EXCEPT !.d = rd.d]
           /\ out' = out \o rd.bytes
           /\ op' = [name |-> "Read", err |-> rd.err, ret |-> Len(rd.bytes),
                     before |-> [s |-> s, dec |-> dec, errs |-> errs]]
           /\ errs' = errs \cup {[name |-> "Read", err |-> rd.err]}
    /\ UNCHANGED <<stream, phase, dec, rows, ref, img>>

NextRead == CallCheckHeader \/ CallChunkStep \/ CallRead

SpecRead == InitRead /\ [][NextRead]_vars

\* parseIHDR alone, on header chunks over boundary values of every field: the
\* stream is one header chunk, the decoder is the one of NewDecoder when its
\* chunk loop calls d.parseIHDR(length) for the first chunk (the 8 bytes of
\* the chunk header read and checksummed, the stage set to dsSeenIHDR).
\* widths and heights: small ones, the neighbours of 2^14, 2^29 and 2^30
\* (2^28 and 2^60 are the least products that overflow when multiplied by 8
\* in 32 and in 64 bits), the greatest int32, and non-positive ones
DimValues ==
    {1, 2, 3, 16383, 16384, 16385, 46341, 65536, 536870912, 536870913,
     1073741823, 1073741824, 1073741825, 2147483647, 0, -1, -2147483647 - 1}

IHDRChunks ==
    UNION { { Chunk(TagIHDR, IHDRPayload(w, h, depth, ct, cm, fm, 0)),
              BadCrcChunk(TagIHDR, IHDRPayload(w, h, depth, ct, cm, fm, 0)) } :
            w \in DimValues, h \in DimValues, depth \in {8, 16},
            ct \in {ctTrueColorAlpha, 2}, cm \in {0, 1}, fm \in {0, 1} }
    \cup
    UNION { { Chunk(TagIHDR, SubSeq(p, 1, 12)), Chunk(TagIHDR, p \o <<0>>),
              BadCrcChunk(TagIHDR, SubSeq(p, 1, 12)), Chunk(TagIHDR, <<>>) } :
            p \in { IHDRPayload(w, 2, depth, ctTrueColorAlpha, cm, 0, 0) :
                      w \in {Width, 0, 1073741824}, depth \in {8, 16}, cm \in {0, 1} } }

InitIHDR ==
    /\ stream \in IHDRChunks
    /\ phase = "ihdr"
    /\ s = [d |-> [NewDecoderStruct EXCEPT !.r = 8,
                                          !.crc = CrcWrite(CrcReset, TagIHDR),
                                          !.stage = dsSeenIHDR],
            z |-> NewZlibState]
    /\ dec = NoDecoderRows
    /\ op = NoOp
    /\ rows = <<>>
    /\ errs = {}
    /\ ref = NoReference
    /\ out = <<>>
    /\ img = NoImage

\* d.parseIHDR(length), length being the first word of the chunk header
CallParseIHDR ==
    /\ phase = "ihdr"
    /\ \E ph \in {parseIHDR(s.d, BigEndianUint32(SubSeq(stream, 1, 4)))} :
           /\ s' = [s EXCEPT !.d = ph.d]
           /\ op' = [name |-> "parseIHDR", err |-> ph.err,
                     ret |-> BigEndianUint32(SubSeq(stream, 1, 4)),
                     before |-> [s |-> s, dec |-> dec, errs |-> errs]]
    /\ phase' = "parsed"
    /\ UNCHANGED <<stream, dec, rows, errs, ref, img, out>>

NextIHDR == CallParseIHDR

SpecIHDR == InitIHDR /\ [][NextIHDR]_vars

\* Sessions on what Encode writes: an image is encoded, then decoded in
\* sequence (NewDecoder, DecodeRow for each row, Close).
InitEncode ==
    /\ img \in Images
    /\ stream = <<>>
    /\ phase = "image"
    /\ s = NoSession
    /\ dec = NoDecoderRows
    /\ op = NoOp
    /\ rows = <<>>
    /\ errs = {}
    /\ ref = NoReference
    /\ out = <<>>

CallEncode ==
    /\ phase = "image"
    /\ \E c \in Compressions, fts \in [1..Len(img) -> ftNone..ftPaeth], seg \in SegSizes :
           stream' = Encode(img, c[1], c[2], fts, seg)
    /\ phase' = "start"
    /\ UNCHANGED <<s, dec, op, rows, errs, ref, img, out>>

\* what a DecodeRow call that returned a row adds to errs
RowReturned == [name |-> "DecodeRow", err |-> Nil]

CallNextRow ==
    /\ errs \subseteq {RowReturned}
    /\ dec.y < s.d.height
    /\ CallDecodeRow

CallCloseAfterRows ==
    /\ errs \subseteq {RowReturned}
    /\ dec.y = s.d.height
    /\ CallClose

NextEncode == CallEncode \/ CallNewDecoder \/ CallNextRow \/ CallCloseAfterRows

SpecEncode == InitEncode /\ [][NextEncode]_vars

(***************************************************************************)
(* Properties.  A decode in sequence is NewDecoder, then DecodeRow calls   *)
(* that each returned a row, then Close once all rows are returned.        *)
(***************************************************************************)
\* the call o was made after nothing but DecodeRow calls that returned rows
InSequence(o) == o.before.errs \subseteq {RowReturned}

\* the call o was made when y had reached the height
RowsDone(o) == o.before.dec.y = o.before.s.d.height

\* the call o is the Close of a decode in sequence
FullDecodeClose(o) == o.name = "Close" /\ InSequence(o) /\ RowsDone(o)

LastRow == rows[Len(rows)].bytes

InvalidChecksum == FormatError("invalid checksum")

\* C1: for every reference-valid stream of the supported profile (several
\* data chunks, zero-length data chunks and ancillary chunks wherever the
\* format allows them included), the decode in sequence returns no error,
\* Bounds is (0, 0, width, height) of the header, every row has 4*width bytes
\* and the rows are the reference decoder's pixel bytes.
C1_ReferenceEquivalence ==
    ref.valid =>
        /\ op.name = "NewDecoder" =>
              op.err = Nil /\ Bounds(s) = <<0, 0, ref.width, ref.height>>
        /\ (op.name = "DecodeRow" /\ InSequence(op) /\ ~RowsDone(op)) =>
              /\ op.err = Nil
              /\ Len(LastRow) = 4 * ref.width
              /\ LastRow = ref.pixels[op.before.dec.y + 1]
        /\ FullDecodeClose(op) => op.err = Nil

\* C2: a decode in sequence that ends without error happens only on a stream
\* of the required shape: one header chunk, then consecutive data chunks, then
\* one zero-length terminal chunk, other chunks only before the first data
\* chunk.
C2_RequiredShapeOnly ==
    (FullDecodeClose(op) /\ op.err = Nil) => (ref.whole /\ RequiredShape(ref.chunks))

\* the payload of the first header chunk of the stream
FirstHeader == ref.chunks[SetMin(Where(ref.chunks, TagIHDR))].payload

\* C3: NewDecoder returns a session only when the header chunk declares bit
\* depth 8, colour type 6, compression method 0, filter method 0, positive
\* width and height and interlace flag 0.
C3_SupportedHeaderOnly ==
    phase = "open" =>
        (Where(ref.chunks, TagIHDR) # {} /\ SupportedHeader(FirstHeader))

\* every chunk of the stream has the right CRC
AllCrcOk == \A i \in 1..Len(ref.chunks) : ref.chunks[i].crcOk

\* the indices of the header and data chunks
HeaderOrData == Where(ref.chunks, TagIHDR) \cup Where(ref.chunks, TagIDAT)

\* the header chunk is duplicated, or is not the first chunk, or a data chunk
\* comes before it, in a stream of intact chunks
HeaderMisplaced ==
    /\ ref.whole
    /\ AllCrcOk
    /\ Where(ref.chunks, TagIHDR) # {}
    /\ \/ Cardinality(Where(ref.chunks, TagIHDR)) >= 2
       \/ ref.chunks[1].tag # TagIHDR
       \/ SetMin(Where(ref.chunks, TagIDAT) \cup {Len(ref.chunks) + 1})
            < SetMin(Where(ref.chunks, TagIHDR))

\* C4 as claimed: whenever the header chunk is duplicated or moved away from
\* the first position, or a data chunk precedes it, the decode fails with
\* "chunk out of order" and with no other outcome: no call returns another
\* error, and Close does not succeed.
C4_HeaderOrderAlways ==
    (HeaderMisplaced /\ InSequence(op)) =>
        /\ \/ op.err \in {Nil, chunkOrderError}
           \/ (op.name = "DecodeRow" /\ op.err = EOF /\ RowsDone(op))
        /\ ~(op.name = "Close" /\ op.err = Nil)

\* a data chunk comes before any header chunk, or a second header chunk
\* comes before the first data chunk; the chunks before the offending one are
\* intact and the first header is of the supported profile
EarlyOrderOffence ==
    /\ HeaderOrData # {}
    /\ \/ /\ ref.chunks[SetMin(HeaderOrData)].tag = TagIDAT
          /\ \A i \in 1..(SetMin(HeaderOrData) - 1) : ref.chunks[i].crcOk
       \/ /\ ref.chunks[SetMin(HeaderOrData)].tag = TagIHDR
          /\ SupportedHeader(FirstHeader)
          /\ HeaderOrData # {SetMin(HeaderOrData)}
          /\ ref.chunks[SetMin(HeaderOrData \ {SetMin(HeaderOrData)})].tag = TagIHDR
          /\ \A i \in 1..(SetMin(HeaderOrData \ {SetMin(HeaderOrData)}) - 1) :
                ref.chunks[i].crcOk

\* C4, amended: when a data chunk comes before any header chunk, or a second
\* header chunk comes before the first data chunk, NewDecoder returns "chunk
\* out of order" and no session.
C4_HeaderOrder ==
    (EarlyOrderOffence /\ op.name = "NewDecoder") =>
        (op.err = chunkOrderError /\ phase = "failed")

C4_Witness ==
    /\ op.name = "NewDecoder"
    /\ EarlyOrderOffence
    /\ Cardinality(Where(ref.chunks, TagIHDR)) = 2
    /\ op.err = chunkOrderError

\* the index of the terminal chunk: the first IEND after the first data
\* chunk, or the last chunk when there is none
Terminal ==
    SetMin({ i \in Where(ref.chunks, TagIEND) :
                \E j \in Where(ref.chunks, TagIDAT) : j < i } \cup {Len(ref.chunks)})

\* some chunk up to the terminal chunk has a stored CRC that is not the CRC of
\* its tag and payload
CrcDamaged == ref.whole /\ \E i \in 1..Terminal : ~ref.chunks[i].crcOk

\* C5: when a chunk up to the terminal chunk has a wrong stored CRC, the
\* decode in sequence (NewDecoder, DecodeRow for every row, Close) never
\* completes without error: the Close that ends it returns an error.
C5_NeverSilent ==
    (CrcDamaged /\ FullDecodeClose(op)) => op.err # Nil

\* the last of the consecutive data chunks that begin with the first one
LastData ==
    SetMax({ i \in Where(ref.chunks, TagIDAT) :
                SetMin(Where(ref.chunks, TagIDAT))..i \subseteq Where(ref.chunks, TagIDAT) })

\* the chunk directly after the last data chunk is a zero-length IEND chunk
\* with the right CRC
TerminalFollows ==
    /\ Where(ref.chunks, TagIDAT) # {}
    /\ LastData < Len(ref.chunks)
    /\ ref.chunks[LastData + 1].tag = TagIEND
    /\ ref.chunks[LastData + 1].payload = <<>>
    /\ ref.chunks[LastData + 1].crcOk

\* C6: after all rows are decoded, Close returns an error whenever what
\* follows the last data chunk is not a well-formed terminal chunk (another
\* tag, an IEND of nonzero length, no chunk, an IEND with a wrong CRC); it
\* succeeds only if a zero-length IEND chunk with a matching CRC directly
\* follows the last data chunk.
C6_TerminalChunk ==
    (FullDecodeClose(op) /\ ~TerminalFollows) => op.err # Nil

\* one step of a session, for C7
RowCounterStep ==
    /\ phase' = "open" => (0 <= dec'.y /\ dec'.y <= s'.d.height /\ Len(rows') <= s'.d.height)
    /\ IF op'.name = "DecodeRow" /\ op'.err = Nil
       THEN dec'.y = dec.y + 1
       ELSE dec'.y = dec.y
    /\ (op'.name = "DecodeRow" /\ dec.y = s.d.height) =>
          (op'.err = EOF /\ op'.ret = 0 /\ s' = s /\ dec' = dec /\ rows' = rows)

\* C7: 0 <= y <= height always; y grows by one on each DecodeRow that returns
\* a row and never otherwise; DecodeRow at y = height returns io.EOF and
\* leaves the stream position, y, both row buffers, the data-segment length
\* and the checksum as they are; at most height rows are returned.
C7_RowCounter == [][RowCounterStep]_vars

\* all rows returned, then end-of-rows, then a Close that succeeds
C7_Witness ==
    /\ op.name = "Close"
    /\ op.err = Nil
    /\ [name |-> "DecodeRow", err |-> EOF] \in op.before.errs
    /\ Len(rows) = s.d.height
    /\ dec.y = s.d.height

\* C8: when the stream ends during a required read, NewDecoder and Close
\* report io.ErrUnexpectedEOF; io.EOF is returned by DecodeRow only, as the
\* end-of-rows signal.
C8_UnexpectedEOF ==
    /\ op.name \in {"NewDecoder", "Close"} => op.err # EOF
    /\ (op.name = "DecodeRow" /\ op.err = EOF) => RowsDone(op)

\* a DecodeRow call made before the call o returned an error other than the
\* end-of-rows signal
RowErrorBefore(o) ==
    \E e \in o.before.errs : e.name = "DecodeRow" /\ e.err \notin {Nil, EOF}

\* C9: once a DecodeRow call has returned an error other than the end-of-rows
\* signal, no later DecodeRow call returns a row and no later Close succeeds.
C9_InvalidAfterError ==
    (RowErrorBefore(op) /\ op.name \in {"DecodeRow", "Close"}) => op.err # Nil

\* one step of a session, for C10: a DecodeRow call that reads a row
RowAliasingStep ==
    (op'.name = "DecodeRow" /\ dec.y < s.d.height) =>
        /\ Len(dec'.bufs) = 2
        /\ \A i \in 1..2 : Len(dec'.bufs[i]) = 1 + 4 * s.d.width
        /\ {dec'.cr, dec'.pr} = {1, 2}
        \* the slice returned last is the previous-row buffer of this call, it
        \* still holds the row, and the call does not write to it
        /\ rows # <<>> =>
              /\ rows[Len(rows)].buf = dec.pr
              /\ Tail1(dec.bufs[dec.pr]) = rows[Len(rows)].bytes
        /\ dec'.bufs[dec.pr] = dec.bufs[dec.pr]
        \* a row is returned in the buffer that was current, which is the one
        \* returned two rows before; the buffers swap
        /\ op'.err = Nil =>
              /\ op'.ret = dec.cr
              /\ dec'.pr = dec.cr /\ dec'.cr = dec.pr
              /\ Len(rows) >= 2 => rows[Len(rows) - 1].buf = op'.ret
              /\ rows'[Len(rows')].bytes = Tail1(dec'.bufs[op'.ret])
        /\ op'.err # Nil => (dec'.pr = dec.pr /\ dec'.cr = dec.cr)

\* C10: the slice DecodeRow returns aliases one of the session's two row
\* buffers of 1+4*width bytes: the next call reads it as the previous row and
\* does not write to it, the call after that returns its row in the same
\* buffer; the buffers alternate by swap.
C10_RowAliasing == [][RowAliasingStep]_vars

\* the third row is returned in the buffer of the first, with other bytes
C10_Witness ==
    /\ op.name = "DecodeRow"
    /\ Len(rows) = 3
    /\ rows[3].buf = rows[1].buf
    /\ rows[2].buf # rows[1].buf
    /\ rows[3].bytes # rows[1].bytes

\* C11: for every image of the supported profile and every level, decoding
\* the stream Encode wrote yields the bounds and the pixel bytes of the image:
\* NewDecoder succeeds with Bounds (0, 0, width, height), each DecodeRow of
\* the decode in sequence returns the bytes of its row, Close succeeds, and
\* the reference decoder accepts the stream with the same pixels.
C11_RoundTrip ==
    img # NoImage =>
        /\ op.name = "NewDecoder" =>
              /\ op.err = Nil
              /\ Bounds(s) = <<0, 0, Len(img[1]) \div 4, Len(img)>>
              /\ ref.valid /\ ref.pixels = img
        /\ (op.name = "DecodeRow" /\ InSequence(op) /\ ~RowsDone(op)) =>
              (op.err = Nil /\ LastRow = img[op.before.dec.y + 1])
        /\ FullDecodeClose(op) => op.err = Nil

\* a two-row image came back from a stream of several data chunks whose
\* second row was filtered with the Average filter
C11_Witness ==
    /\ Len(img) = 2
    /\ FullDecodeClose(op)
    /\ op.err = Nil
    /\ [k \in 1..Len(rows) |-> rows[k].bytes] = img
    /\ img[1] # img[2]
    /\ Cardinality(Where(ref.chunks, TagIDAT)) >= 2
    /\ dec.bufs[dec.pr][1] = ftAverage

(***************************************************************************)
(* Header parsing.  The product of the dimensions is recomputed here in    *)
(* decimal, in groups of three digits, lowest first, and compared with the *)
(* greatest value of the platform's int.                                   *)
(***************************************************************************)
\* the four groups of 0 <= n < 2^31
Groups(n) == <<n % 1000, (n \div 1000) % 1000, (n \div 1000000) % 1000, n \div 1000000000>>

Term(a, b, i, k) == IF k + 1 - i \in 1..4 THEN a[i] * b[k + 1 - i] ELSE 0

RECURSIVE Carry(_, _)
Carry(c, k) ==
    IF k >= Len(c) THEN c
    ELSE Carry([c EXCEPT ![k] = c[k] % 1000, ![k + 1] = c[k + 1] + (c[k] \div 1000)], k + 1)

\* w * h for 0 < w, h < 2^31, in eight groups
Product(w, h) ==
    Carry([k \in 1..8 |-> Term(Groups(w), Groups(h), 1, k) + Term(Groups(w), Groups(h), 2, k)
                          + Term(Groups(w), Groups(h), 3, k) + Term(Groups(w), Groups(h), 4, k)],
          1)

Times(n, x) == Carry([k \in 1..Len(x) |-> n * x[k]], 1)

RECURSIVE LeqFrom(_, _, _)
LeqFrom(x, y, k) ==
    IF k = 0 THEN TRUE
    ELSE IF x[k] < y[k] THEN TRUE
    ELSE IF x[k] > y[k] THEN FALSE
    ELSE LeqFrom(x, y, k - 1)

\* the greatest int: 2^63 - 1 = 9 223 372 036 854 775 807, or 2^31 - 1
MaxIntGroups ==
    IF IntBits = 64 THEN <<807, 775, 854, 36, 372, 223, 9, 0>>
    ELSE <<647, 483, 147, 2, 0, 0, 0, 0>>

\* width * height * 8, computed without overflow, fits the platform's int
FitsInt(w, h) == LeqFrom(Times(8, Product(w, h)), MaxIntGroups, 8)

\* the header chunk of the stream: its length word and the bytes after its tag
IHDRLength == BigEndianUint32(SubSeq(stream, 1, 4))
IHDRTmp == SubSeq(stream, 9, min(21, Len(stream)))
IHDRCrcOk == stream = Chunk(TagIHDR, SubSeq(stream, 9, Len(stream) - 4))

BadLength == IHDRLength # 13
BadCompression == ~BadLength /\ IHDRTmp[11] # 0
BadFilter == ~BadLength /\ ~BadCompression /\ IHDRTmp[12] # 0
NonPositive ==
    /\ ~BadLength /\ ~BadCompression /\ ~BadFilter
    /\ (HeaderFields(IHDRTmp).width <= 0 \/ HeaderFields(IHDRTmp).height <= 0)
Overflow ==
    /\ ~BadLength /\ ~BadCompression /\ ~BadFilter /\ ~NonPositive
    /\ ~FitsInt(HeaderFields(IHDRTmp).width, HeaderFields(IHDRTmp).height)
BadDepthType ==
    /\ ~BadLength /\ ~BadCompression /\ ~BadFilter /\ ~NonPositive /\ ~Overflow
    /\ ~(IHDRTmp[9] = 8 /\ IHDRTmp[10] = ctTrueColorAlpha)
FieldsPass ==
    ~BadLength /\ ~BadCompression /\ ~BadFilter /\ ~NonPositive /\ ~Overflow /\ ~BadDepthType

\* C12: parseIHDR reports the first failing check in the order length,
\* compression method, filter method, non-positive dimension, dimension
\* overflow, bit depth and colour type (naming the depth and type found); the
\* four CRC bytes are read and compared only when all of these pass, and
\* width and height are stored only then.
C12_HeaderCheckOrder ==
    op.name = "parseIHDR" =>
        /\ BadLength <=> op.err = FormatError("bad IHDR length")
        /\ BadCompression <=> op.err = UnsupportedError("compression method")
        /\ BadFilter <=> op.err = UnsupportedError("filter method")
        /\ NonPositive <=> op.err = FormatError("non-positive dimension")
        /\ Overflow <=> op.err = UnsupportedError("dimension overflow")
        /\ BadDepthType =>
              op.err = UnsupportedErrorf("bit depth %d, color type %d",
                                         <<IHDRTmp[9], IHDRTmp[10]>>)
        /\ op.err.msg = "bit depth %d, color type %d" => BadDepthType
        /\ FieldsPass <=> op.err \in {Nil, InvalidChecksum}
        /\ FieldsPass => (op.err = Nil <=> IHDRCrcOk)
        /\ s.d.r = (IF BadLength THEN 8 ELSE IF FieldsPass THEN 25 ELSE 21)
        /\ IF FieldsPass
           THEN /\ s.d.width = HeaderFields(IHDRTmp).width
                /\ s.d.height = HeaderFields(IHDRTmp).height
           ELSE s.d.width = 0 /\ s.d.height = 0

\* a header with a wrong compression method, a wrong filter method, a zero
\* width, a wrong bit depth and a wrong CRC was parsed: the compression
\* method is what is reported
C12_Witness ==
    /\ op.name = "parseIHDR"
    /\ IHDRLength = 13
    /\ IHDRTmp[11] # 0 /\ IHDRTmp[12] # 0
    /\ HeaderFields(IHDRTmp).width = 0
    /\ IHDRTmp[9] # 8
    /\ ~IHDRCrcOk
    /\ op.err = UnsupportedError("compression method")
    /\ s.d.r = 21

\* C19: for all positive 32-bit width and height, parseIHDR returns
\* "dimension overflow" exactly when width * height * 8, computed without
\* overflow, does not fit the platform's signed int.
C19_DimensionOverflow ==
    (/\ op.name = "parseIHDR"
     /\ ~BadLength /\ ~BadCompression /\ ~BadFilter
     /\ HeaderFields(IHDRTmp).width > 0
     /\ HeaderFields(IHDRTmp).height > 0) =>
        (op.err = UnsupportedError("dimension overflow")
            <=> ~FitsInt(HeaderFields(IHDRTmp).width, HeaderFields(IHDRTmp).height))

\* the least overflowing product of 64 bits, 2^30 * 2^30, was rejected (in 32
\* bits it fails the first test already)
C19_Witness ==
    /\ op.name = "parseIHDR"
    /\ ~BadLength /\ ~BadCompression /\ ~BadFilter
    /\ HeaderFields(IHDRTmp).width = 1073741824
    /\ HeaderFields(IHDRTmp).height = 1073741824
    /\ op.err = UnsupportedError("dimension overflow")

\* the tag of the chunk that the dispatch o took from the stream
DispatchedTag(o) == SubSeq(stream, o.before.s.d.r + 5, o.before.s.d.r + 8)

DispatchOf(o, tag) ==
    /\ o.name = "chunk"
    /\ Len(stream) >= o.before.s.d.r + 8
    /\ DispatchedTag(o) = tag

OtherDispatch(o) ==
    /\ o.name = "chunk"
    /\ ~DispatchOf(o, TagIHDR)
    /\ ~DispatchOf(o, TagIDAT)

StageStep ==
    /\ s'.d.stage >= s.d.stage
    /\ (DispatchOf(op', TagIHDR) /\ phase' # "failed") =>
          (s.d.stage = dsStart /\ s'.d.stage = dsSeenIHDR)
    /\ (DispatchOf(op', TagIHDR) /\ s.d.stage # dsStart) =>
          (op'.err = chunkOrderError /\ s'.d.stage = s.d.stage)
    /\ (DispatchOf(op', TagIDAT) /\ phase' # "failed") =>
          (s.d.stage \in {dsSeenIHDR, dsSeenIDAT} /\ s'.d.stage = dsSeenIDAT)
    /\ (DispatchOf(op', TagIDAT) /\ s.d.stage \notin {dsSeenIHDR, dsSeenIDAT}) =>
          (op'.err = chunkOrderError /\ s'.d.stage = s.d.stage)
    /\ OtherDispatch(op') => s'.d.stage = s.d.stage
    /\ op'.name \in {"checkHeader", "zlib.NewReader", "DecodeRow", "Close"} =>
          s'.d.stage = s.d.stage

\* C13: over any sequence of chunk dispatches and session calls the stage
\* never moves backward; a header chunk is accepted only in stage dsStart
\* (and moves it to dsSeenIHDR), a data chunk only in dsSeenIHDR or
\* dsSeenIDAT (and moves it to dsSeenIDAT), both are refused with the stage
\* unchanged otherwise; a chunk of any other type, the signature check, the
\* opening of the data, DecodeRow and Close leave the stage unchanged.
C13_StageOrder == [][StageStep]_vars

\* the data chunk was accepted in stage dsSeenIHDR after a chunk of another
\* type had been skipped, and rows were decoded from it
C13_Witness ==
    /\ s.d.stage = dsSeenIDAT
    /\ op.name = "DecodeRow"
    /\ op.err = Nil
    /\ Len(stream) >= 53
    /\ SubSeq(stream, 13, 16) = TagIHDR
    /\ SubSeq(stream, 38, 41) = TagtEXt
    /\ SubSeq(stream, 53, 56) = TagIDAT

(***************************************************************************)
(* decoder.Read.  A call of Read with a non-empty buffer returns bytes or  *)
(* an error; Exhausted(o) is such a call made when nothing was left of the *)
(* current data chunk.                                                     *)
(***************************************************************************)
ReadOk == [name |-> "Read", err |-> Nil]

\* a <= p, p the 32-bit pattern of a uint32 and 0 <= a < 2^31
LeqUint32(a, p) == p < 0 \/ a <= p

\* the number of bytes of the stream that a chunk with the length word of
\* pattern p can hold: p itself, or more than the stream has
Capacity(p) == IF p < 0 \/ p > Len(stream) THEN Len(stream) ELSE p

Exhausted(o) ==
    /\ o.name = "Read"
    /\ o.before.s.d.idatLength = 0
    /\ (o.ret > 0 \/ o.err # Nil)

\* the bytes of the stream from offset r on, n at most
Ahead(r, n) == SubSeq(stream, r + 1, min(r + n, Len(stream)))

\* the stored CRC at the reader's position before the call o is the running
\* checksum
CrcMatched(o) == Ahead(o.before.s.d.r, 4) = o.before.s.d.crc

\* C14: a Read that finds the current data chunk exhausted first compares
\* the chunk's CRC ("invalid checksum", nothing more read), then reads the
\* next chunk header, then requires the tag IDAT ("not enough pixel data",
\* the checksum not reset), then resets the checksum over the new tag; so
\* the bytes it delivers follow a matched CRC and the header of a data chunk,
\* with nothing in between but zero-length data chunks that took the same
\* steps.  A Read with bytes left in the current chunk reads no CRC and no
\* header.
C14_ChunkAdvance ==
    /\ (Exhausted(op) /\ ~CrcMatched(op)) =>
          /\ op.ret = 0
          /\ s.d.crc = op.before.s.d.crc
          /\ IF Len(Ahead(op.before.s.d.r, 4)) = 4
             THEN op.err = InvalidChecksum /\ s.d.r = op.before.s.d.r + 4
             ELSE op.err \in {EOF, ErrUnexpectedEOF}
    /\ (Exhausted(op) /\ CrcMatched(op) /\ Len(Ahead(op.before.s.d.r + 4, 8)) < 8) =>
          (op.ret = 0 /\ op.err \in {EOF, ErrUnexpectedEOF} /\ s.d.crc = op.before.s.d.crc)
    /\ (/\ Exhausted(op) /\ CrcMatched(op)
        /\ Len(Ahead(op.before.s.d.r + 4, 8)) = 8
        /\ SubSeq(Ahead(op.before.s.d.r + 4, 8), 5, 8) # TagIDAT) =>
          /\ op.ret = 0
          /\ op.err = FormatError("not enough pixel data")
          /\ s.d.crc = op.before.s.d.crc
          /\ s.d.r = op.before.s.d.r + 12
    /\ (Exhausted(op) /\ op.ret > 0) =>
          /\ CrcMatched(op)
          /\ Ahead(s.d.r - op.ret - 4, 4) = TagIDAT
          /\ (s.d.r - op.ret - 8 - (op.before.s.d.r + 4)) % 12 = 0
          /\ s.d.crc = CrcWrite(CrcReset, TagIDAT \o Ahead(s.d.r - op.ret, op.ret))
          /\ SubSeq(out, Len(out) - op.ret + 1, Len(out)) = Ahead(s.d.r - op.ret, op.ret)
    /\ (op.name = "Read" /\ op.before.s.d.idatLength # 0) =>
          /\ s.d.r = op.before.s.d.r + op.ret
          /\ LeqUint32(op.ret, op.before.s.d.idatLength)
          /\ s.d.idatLength = SubUint32(op.before.s.d.idatLength, op.ret)
          /\ s.d.crc = CrcWrite(op.before.s.d.crc, Ahead(op.before.s.d.r, op.ret))

\* a Read went from an exhausted data chunk through one zero-length data
\* chunk to the bytes of the chunk after it
C14_Witness ==
    /\ Exhausted(op)
    /\ op.ret > 0
    /\ op.before.s.d.r > Len(pngHeader) + Len(BaseHeader) + 8
    /\ s.d.r - op.ret - 8 - (op.before.s.d.r + 4) = 12

\* the offset of the first data chunk in the streams of ReadStreams
DataStart == Len(pngHeader) + Len(BaseHeader)

\* the payloads of the consecutive data chunks from offset pos on, one after
\* the other (what there is of the payload of a chunk that is cut short)
RECURSIVE DataRun(_)
DataRun(pos) ==
    IF pos + 8 > Len(stream) THEN <<>>
    ELSE IF SubSeq(stream, pos + 5, pos + 8) # TagIDAT THEN <<>>
    ELSE IF \/ BigEndianUint32(SubSeq(stream, pos + 1, pos + 4)) < 0
            \/ pos + 12 + BigEndianUint32(SubSeq(stream, pos + 1, pos + 4)) > Len(stream)
    THEN Ahead(pos + 8, Capacity(BigEndianUint32(SubSeq(stream, pos + 1, pos + 4))))
    ELSE SubSeq(stream, pos + 9, pos + 8 + BigEndianUint32(SubSeq(stream, pos + 1, pos + 4)))
         \o DataRun(pos + 12 + BigEndianUint32(SubSeq(stream, pos + 1, pos + 4)))

\* the offset of the data chunk that the reader's position r is in: between
\* its tag and its CRC
RECURSIVE ChunkOf(_, _)
ChunkOf(pos, r) ==
    IF r <= pos + 8 + Capacity(BigEndianUint32(SubSeq(stream, pos + 1, pos + 4))) THEN pos
    ELSE ChunkOf(pos + 12 + BigEndianUint32(SubSeq(stream, pos + 1, pos + 4)), r)

Delivered ==
    /\ Len(out) <= Len(DataRun(DataStart))
    /\ out = SubSeq(DataRun(DataStart), 1, Len(out))

\* C15 as stated: after any sequence of Read calls the bytes delivered are a
\* prefix of the payloads of the consecutive data chunks.
C15_AnySequence == phase = "data" => Delivered

\* C15, for sequences of Read calls in which no call before the last one
\* returned an error: the bytes delivered are a prefix of the payloads of the
\* consecutive data chunks, one after the other; and while no call has
\* returned an error, the reader stands in a data chunk, the remaining length
\* is what is left of that chunk's payload (the chunk's length less the bytes
\* read of it, which are no more than the length, as unsigned 32-bit
\* numbers), the bytes delivered are the payloads before that position, and
\* the running checksum is the CRC of that chunk's tag and of its payload up
\* to that position.
C15_DeliveredPrefix ==
    /\ (phase = "data" /\ op.before.errs \subseteq {ReadOk}) => Delivered
    /\ (phase = "data" /\ errs \subseteq {ReadOk}) =>
          /\ ChunkOf(DataStart, s.d.r) + 8 <= s.d.r
          /\ Ahead(ChunkOf(DataStart, s.d.r) + 4, 4) = TagIDAT
          /\ LeqUint32(s.d.r - (ChunkOf(DataStart, s.d.r) + 8),
                       BigEndianUint32(Ahead(ChunkOf(DataStart, s.d.r), 4)))
          /\ s.d.idatLength =
                 SubUint32(BigEndianUint32(Ahead(ChunkOf(DataStart, s.d.r), 4)),
                           s.d.r - (ChunkOf(DataStart, s.d.r) + 8))
          /\ s.d.crc = CrcWrite(CrcReset, SubSeq(stream, ChunkOf(DataStart, s.d.r) + 5, s.d.r))
          /\ out \o Ahead(s.d.r, Capacity(s.d.idatLength))
                 \o DataRun(ChunkOf(DataStart, s.d.r) + 12
                            + Capacity(BigEndianUint32(Ahead(ChunkOf(DataStart, s.d.r), 4))))
               = DataRun(DataStart)

\* the payloads of three data chunks, an empty one between two others, were
\* delivered whole in several calls, and the call after them failed at the
\* chunk that is no data chunk
C15_Witness ==
    /\ phase = "data"
    /\ op.name = "Read"
    /\ op.err = FormatError("not enough pixel data")
    /\ op.before.errs = {ReadOk}
    /\ out = <<1, 2, 3, 4, 5, 6, 7, 8>>
    /\ out = DataRun(DataStart)
    /\ Len(stream) > DataStart + 15 + 12 + 17

\* the offset in the stream of the end of the payload of the last data chunk
LastDataEnd == ref.chunks[LastData].at + 8 + Len(ref.chunks[LastData].payload)

\* C16: for a reference-valid stream, when Close is called after all rows
\* were decoded in sequence, the remaining length of the data segment is 0
\* and the reader stands between the last data chunk's payload and its CRC
\* (so that Close compares that chunk's CRC and then reads the header of the
\* chunk that follows it).
C16_PositionAtClose ==
    (ref.valid /\ FullDecodeClose(op)) =>
        /\ op.before.s.d.idatLength = 0
        /\ op.before.s.d.r = LastDataEnd

PreviousRow(d) == Tail1(d.bufs[d.pr])

PreviousRowStep ==
    /\ phase' = "open" =>
          /\ Len(rows') = dec'.y
          /\ PreviousRow(dec') = IF dec'.y = 0 THEN Zeros(4 * s'.d.width)
                                  ELSE rows'[dec'.y].bytes
    /\ (phase' = "open" /\ ref'.valid /\ errs' \subseteq {RowReturned} /\ dec'.y > 0) =>
          PreviousRow(dec') = ref'.pixels[dec'.y]
    /\ (op'.name = "DecodeRow" /\ op'.err = Nil) =>
          /\ dec'.pr = dec.cr /\ dec'.cr = dec.pr
          /\ dec'.bufs[dec'.cr] = dec.bufs[dec.pr]
          /\ PreviousRow(dec') = Tail1(dec'.bufs[op'.ret])
    /\ (op'.name = "DecodeRow" /\ op'.err # Nil) =>
          /\ dec'.pr = dec.pr
          /\ dec'.bufs[dec'.pr] = dec.bufs[dec.pr]
          /\ dec'.y = dec.y
    /\ op'.name = "Close" => dec' = dec

\* C17: in every state of a session pr[1:] holds the reconstructed bytes of
\* row y-1 (the row returned last; the reference decoder's row for a valid
\* stream), or zeros when y = 0: it is all-zero after NewDecoder, becomes the
\* row just reconstructed on each successful DecodeRow by the swap of the two
\* buffers, and is unchanged by a DecodeRow that fails or returns io.EOF.
C17_PreviousRow == [][PreviousRowStep]_vars

\* after a first row, a DecodeRow failed having overwritten the current-row
\* buffer: the previous-row buffer still holds the first row
C17_Witness ==
    /\ op.name = "DecodeRow"
    /\ op.err \notin {Nil, EOF}
    /\ dec.y = 1
    /\ PreviousRow(dec) = rows[1].bytes
    /\ PreviousRow(dec) # Zeros(4 * s.d.width)
    /\ dec.bufs[dec.cr] # op.before.dec.bufs[op.before.dec.cr]

\* the filter type, the filtered bytes and the row above that the
\* reconstruction o was given, and the bytes it left
FilterType(o) == o.before.dec.bufs[o.before.dec.cr][1]
Filtered(o) == Tail1(o.before.dec.bufs[o.before.dec.cr])
Above(o) == Tail1(o.before.dec.bufs[o.before.dec.pr])
Reconstructed == Tail1(dec.bufs[dec.pr])

\* C18: with 4 bytes per pixel and modulo 256, the reconstruction of
\* DecodeRow leaves, for the filter type None the bytes as they are; for Sub
\* byte i plus the reconstructed byte 4 places to its left, the first 4 bytes
\* unchanged; for Up byte i plus the byte above; for Average byte i plus half
\* the byte above (rounded down) for the first 4 bytes and plus
\* floor((reconstructed left byte + byte above) / 2) for the others, the sum
\* formed in more than 8 bits; a filter type outside 0..4 gives "bad filter
\* type".
C18_Reconstruction ==
    op.name = "filter" =>
        /\ FilterType(op) \in ftNone..ftPaeth => (op.err = Nil /\ dec.pr = op.before.dec.cr)
        /\ FilterType(op) = ftNone => Reconstructed = Filtered(op)
        /\ FilterType(op) = ftSub =>
              \A i \in 1..Len(Filtered(op)) :
                 Reconstructed[i] =
                    IF i <= 4 THEN Filtered(op)[i]
                    ELSE (Filtered(op)[i] + Reconstructed[i - 4]) % 256
        /\ FilterType(op) = ftUp =>
              \A i \in 1..Len(Filtered(op)) :
                 Reconstructed[i] = (Filtered(op)[i] + Above(op)[i]) % 256
        /\ FilterType(op) = ftAverage =>
              \A i \in 1..Len(Filtered(op)) :
                 Reconstructed[i] =
                    IF i <= 4 THEN (Filtered(op)[i] + (Above(op)[i] \div 2)) % 256
                    ELSE (Filtered(op)[i]
                          + ((Reconstructed[i - 4] + Above(op)[i]) \div 2)) % 256
        /\ FilterType(op) \notin ftNone..ftPaeth =>
              (op.err = FormatError("bad filter type") /\ dec.y = op.before.dec.y)

\* an Average reconstruction in which the reconstructed left byte and the
\* byte above add up to more than 255
C18_Witness ==
    /\ op.name = "filter"
    /\ op.err = Nil
    /\ FilterType(op) = ftAverage
    /\ Reconstructed[1] + Above(op)[5] > 255
    /\ Reconstructed[5] = (Filtered(op)[5] + ((Reconstructed[1] + Above(op)[5]) \div 2)) % 256

\* the decompressor of the session before the call o closes without error
ZlibCloses(o) ==
    /\ o.before.s.z.err \in {Nil, EOF}
    /\ o.before.s.z.ferr \in {Nil, EOF}

\* what the stream holds at the reader's position before the call o: the
\* running checksum, and after it a zero-length IEND chunk
CrcAhead(o) == Ahead(o.before.s.d.r, 4) = o.before.s.d.crc
TerminalAhead(o) == Ahead(o.before.s.d.r + 4, 12) = IENDChunk

StageNeverSeenEnd == s.d.stage \in {dsStart, dsSeenIHDR, dsSeenIDAT}

\* C20 as stated: the stage is never dsSeenIEND, and every Close call reads a
\* trailing CRC from the stream (when the stream has the 4 bytes).
C20_EveryCloseReads ==
    /\ StageNeverSeenEnd
    /\ (op.name = "Close" /\ Len(Ahead(op.before.s.d.r, 4)) = 4) =>
          s.d.r >= op.before.s.d.r + 4

\* C20: the stage is dsStart, dsSeenIHDR or dsSeenIDAT in every state, also
\* after Close has read and verified the terminal chunk; so no Close returns
\* by the early-success path: a Close call, a second one after a successful
\* Close included, closes the decompressor and, unless that gives an error
\* (which it returns, nothing read), reads 4 bytes and compares them with the
\* running checksum, and if they match reads the next chunk, which must be a
\* zero-length IEND chunk with a matching CRC; it returns nil only then.
C20_NoEarlySuccess ==
    /\ StageNeverSeenEnd
    /\ (op.name = "Close" /\ ~ZlibCloses(op)) =>
          (op.err # Nil /\ s.d = op.before.s.d)
    /\ (op.name = "Close" /\ ZlibCloses(op)) =>
          /\ s.d.r = min(Len(stream),
                         op.before.s.d.r
                         + (IF ~CrcAhead(op) THEN 4
                            ELSE IF Ahead(op.before.s.d.r + 4, 8) # SubSeq(IENDChunk, 1, 8)
                            THEN 12 ELSE 16))
          /\ op.err = Nil <=> (CrcAhead(op) /\ TerminalAhead(op))
          /\ (Len(Ahead(op.before.s.d.r, 4)) = 4 /\ ~CrcAhead(op)) => op.err = InvalidChecksum

\* a second Close after a successful one read the stream again, found its
\* end and failed
C20_Witness ==
    /\ op.name = "Close"
    /\ [name |-> "Close", err |-> Nil] \in op.before.errs
    /\ ZlibCloses(op)
    /\ op.before.s.d.r = Len(stream)
    /\ op.err = EOF
    /\ s.d.stage = dsSeenIDAT

=============================================================================
